---- MODULE Spec2Model ----
(***************************************************************************)
(* The download engine of the BitTorrent client (client/client.go and      *)
(* peer/peer.go): the coordinator Torrent.Download, one goroutine          *)
(* Torrent.startDownloadWorker per peer, the buffered channel workQueue,   *)
(* the unbuffered channel results, and attemptDownloadPiece with its       *)
(* pieceProgress.  The remote peers and the clock are the environment:     *)
(* every message a worker reads, every socket failure and the passing of   *)
(* the per-piece deadline are inputs chosen from bounded sets.             *)
(*                                                                         *)
(* One model byte stands for 8192 bytes of the source, so that             *)
(* MaxBlockSize (16384 in client.go) is 2 here; MaxBacklog keeps its       *)
(* value.  Byte values are small naturals; 0 is the value make([]byte, n)  *)
(* fills a fresh buffer with.                                              *)
(***************************************************************************)
EXTENDS Integers, Sequences, FiniteSets, TLC

VARIABLES
    t,            \* the Torrent: PieceHashes, PieceLength, Length, Peers
    peerKind,     \* environment, per peer: "honest" | "flaky" | "sloppy" | "any"
    workQueue,    \* Download: the buffered channel's contents, a FIFO of *pieceWork
    closed,       \* Download: close(workQueue) has happened
    buf,          \* Download: the output image
    donePieces,   \* Download: results consumed
    dpc,          \* Download: "collect" | "returned"
    collected,    \* history: the pieceResults received on results, in arrival order
    pc,           \* per worker: where the goroutine stands
    conn,         \* per worker: the socket, "none" | "open" | "closed"
    deadline,     \* per worker: the socket deadline, "none" | "set" | "passed"
    client,       \* per worker: the *peer.Client (Choked, Bitfield) or NoClient
    pw,           \* per worker: the *pieceWork in hand or NoWork
    state,        \* per worker: the pieceProgress of the attempt in progress
    res,          \* per worker: the *pieceResult being sent on results, or NoResult
    wire,         \* per worker, history of the attempt: requests written, requests unanswered
    requeued,     \* history: indexes pushed back onto workQueue and not taken since
    handshake,    \* per worker, history: the info hash of the handshake the peer sent to New
    firstRead,    \* per worker, history: what the read of recvBitfield returned, <<>> if none
    sent,         \* per worker, history: the messages written other than requests, in order
    call,         \* a call of one of the pure functions: its name and its arguments
    ret           \* what the call returned, <<>> while it has not run

downloadVars == <<t, peerKind, workQueue, closed, buf, donePieces, dpc, collected,
                  pc, conn, deadline, client, pw, state, res, wire, requeued, handshake,
                  firstRead, sent>>

vars == <<downloadVars, call, ret>>

coordVars == <<buf, donePieces, dpc, collected, closed>>

----------------------------------------------------------------------------
(* Program constants and the bounds of the model *)

\* client.go:49 (16384 bytes = 2 model bytes)
MaxBlockSize == 2
\* client.go:50
MaxBacklog == 5

\* The goroutines Download may start (one per entry of t.Peers).
Workers == {1, 2}
\* Piece geometries on which calculateBoundsForPiece is called: piece lengths
\* 1..MaxPieceLength, lengths 0..MaxLength, 1..MaxHashes piece hashes.
MaxPieceLength == 4
MaxLength == 9
MaxHashes == 3
\* Values given to Encode: lists of up to MaxItems items, maps of up to
\* MaxItems keys.
MaxItems == 2
\* Inputs given to Decode: up to MaxTokens tokens one after the other, and
\* integer tokens with a body of up to MaxBody bytes.
MaxTokens == 4
MaxBody == 4
\* Torrent files given to Parse: lengths and piece lengths written in them.
MaxFileLength == 4
MaxFilePieceLength == 2
\* Compact peer lists given to parsePeers: up to MaxPeers whole entries.
MaxPeers == 3
\* Piece buffers readMessage is called on: 1..MaxBufLen bytes.
MaxBufLen == 3
\* How many piece messages beyond the requested ones a peer sends in one attempt
\* (caps the fall of backlog below 0).
MaxUnrequested == 2
\* Length of the single piece of the torrent that exercises the request window:
\* 6 blocks, one more than MaxBacklog.
WindowLength == 11

NoWork == [index |-> -1]
NoClient == [Choked |-> TRUE, Bitfield |-> <<>>, nil |-> TRUE]
NoProgress == [index |-> -1, buf |-> <<>>, downloaded |-> 0, requested |-> 0, backlog |-> 0]
NoResult == [index |-> -1, buf |-> <<>>]
NoWire == [reqs |-> <<>>, inflight |-> {}]

Min(a, b) == IF a < b THEN a ELSE b

----------------------------------------------------------------------------
(* The file being shared and its digests *)

\* The source file: byte k (0-based offset k-1) has the value k, so every
\* offset is recognisable and no byte equals the 0 of a fresh buffer.
Source(length) == [k \in 1..length |-> k]

Zeros(n) == [k \in 1..n |-> 0]

\* sha1.Sum: a digest, taken as collision free (equal digests iff equal bytes).
Sha1Sum(b) == <<"sha1", Len(b), b>>

\* The descriptor's PieceHashes: the digest of each piece_length chunk of the source.
PieceHashesOf(pieceLength, length) ==
    LET n == (length + pieceLength - 1) \div pieceLength
    IN  [i \in 1..n |->
            Sha1Sum(SubSeq(Source(length), (i - 1) * pieceLength + 1,
                           Min(i * pieceLength, length)))]

NumPieces == Len(t.PieceHashes)

----------------------------------------------------------------------------
(* client.go: piece geometry *)

\* Faulty variant of calculateBoundsForPiece: the end is not clamped to the length.
calculateBoundsNoClamp(index) ==
    <<index * t.PieceLength, index * t.PieceLength + t.PieceLength>>

\* Torrent.calculateBoundsForPiece: <<begin, end>>
calculateBoundsForPiece(index) ==
    LET begin == index * t.PieceLength
        end   == begin + t.PieceLength
    IN  <<begin, IF end > t.Length THEN t.Length ELSE end>>

\* Torrent.calculatePieceSize
calculatePieceSize(index) ==
    calculateBoundsForPiece(index)[2] - calculateBoundsForPiece(index)[1]

\* Go's copy(dst[begin:end], src): min(end - begin, len(src)) bytes, the rest kept.
CopyAt(dst, begin, end, src) ==
    [k \in 1..Len(dst) |->
        IF k > begin /\ k <= end /\ k - begin <= Len(src)
        THEN src[k - begin] ELSE dst[k]]

\* Faulty variant of writePiece: the result is copied to the start of the image.
writePieceAtStart(image, r) == CopyAt(image, 0, Len(r.buf), r.buf)

\* Download, lines 224-225: copy(buf[begin:end], res.buf).
writePiece(image, r) ==
    LET b == calculateBoundsForPiece(r.index)
    IN  CopyAt(image, b[1], b[2], r.buf)

\* Faulty variant of collecting: the loop stops one result early.
collectingOneShort == donePieces < Len(t.PieceHashes) - 1

\* Faulty variant of collecting: the loop ends with the first result.
collectingFirstOnly == donePieces < 1

\* Download, line 222: the condition of the collecting loop.
collecting == donePieces < Len(t.PieceHashes)

\* Faulty variant of chanRecv: the received job is put back behind the others.
chanRecvDuplicates(q) == [job |-> Head(q), rest |-> Append(Tail(q), Head(q))]

\* Faulty variant of chanRecv: the received job stays in the channel.
chanRecvKeeps(q) == [job |-> Head(q), rest |-> q]

\* A receive from a channel holding q: the value received and what is left.
chanRecv(q) == [job |-> Head(q), rest |-> Tail(q)]

\* Download, lines 209-212: one job per piece hash, in index order.
SeedQueue ==
    [i \in 1..Len(t.PieceHashes) |->
        [index  |-> i - 1,
         hash   |-> t.PieceHashes[i],
         length |-> calculatePieceSize(i - 1)]]

----------------------------------------------------------------------------
(* The peer wire protocol (package peer: message and bitfield code) *)

MsgChoke == 0
MsgUnchoke == 1
MsgInterested == 2
MsgHave == 4
MsgBitfield == 5
MsgPiece == 7

\* The nil *Message that ReadMessage returns for a keep-alive (length prefix 0).
NilMsg == [ID |-> -1, Payload |-> <<>>]

Message(id, payload) == [ID |-> id, Payload |-> payload]

\* binary.BigEndian.PutUint32 / Uint32, for the values the model uses (< 65536).
PutUint32(n) == <<0, 0, n \div 256, n % 256>>
Uint32(p) == ((p[1] * 256 + p[2]) * 256 + p[3]) * 256 + p[4]

NewHaveMessage(index) == Message(MsgHave, PutUint32(index))
NewPieceMessage(index, begin, block) ==
    Message(MsgPiece, PutUint32(index) \o PutUint32(begin) \o block)

\* ParseHaveMessage: the payload is exactly a 4-byte big-endian index.
ParseHaveMessage(payload) ==
    IF Len(payload) # 4
    THEN [err |-> TRUE, index |-> 0]
    ELSE [err |-> FALSE, index |-> Uint32(payload)]

\* ParsePieceMessage: index, begin, block; a payload shorter than 8 bytes or
\* one whose index is not the expected index is rejected.
ParsePieceMessage(index, payload) ==
    IF Len(payload) < 8
    THEN [err |-> TRUE, begin |-> 0, block |-> <<>>]
    ELSE IF Uint32(SubSeq(payload, 1, 4)) # index
    THEN [err |-> TRUE, begin |-> 0, block |-> <<>>]
    ELSE [err |-> FALSE,
          begin |-> Uint32(SubSeq(payload, 5, 8)),
          block |-> SubSeq(payload, 9, Len(payload))]

Pow2(n) == IF n = 0 THEN 1 ELSE IF n = 1 THEN 2 ELSE IF n = 2 THEN 4
           ELSE IF n = 3 THEN 8 ELSE IF n = 4 THEN 16 ELSE IF n = 5 THEN 32
           ELSE IF n = 6 THEN 64 ELSE 128

\* Bitfield.HasPiece: bit index of the byte array, most significant bit first;
\* an index past the array is not held.
HasPiece(bf, index) ==
    LET byteIndex == index \div 8
        offset    == index % 8
    IN  /\ byteIndex >= 0
        /\ byteIndex < Len(bf)
        /\ (bf[byteIndex + 1] \div Pow2(7 - offset)) % 2 = 1

\* Bitfield.SetPiece: sets the bit; an index past the array is ignored.
SetPiece(bf, index) ==
    LET byteIndex == index \div 8
        offset    == index % 8
    IN  IF byteIndex < 0 \/ byteIndex >= Len(bf) \/ HasPiece(bf, index)
        THEN bf
        ELSE [bf EXCEPT ![byteIndex + 1] = @ + Pow2(7 - offset)]

----------------------------------------------------------------------------
(* peer.go: New, completeHandshake, recvBitfield *)

\* Faulty variant of completeHandshake: the info hash is not compared.
completeHandshakeAnyHash(remote, infoHash) ==
    IF remote = "err" THEN [err |-> TRUE] ELSE [err |-> FALSE]

\* completeHandshake: what the remote handshake was ("err": the write or the
\* read failed); an info hash other than ours is an error.
completeHandshake(remote, infoHash) ==
    IF remote = "err" THEN [err |-> TRUE]
    ELSE IF remote # infoHash THEN [err |-> TRUE]
    ELSE [err |-> FALSE]

\* Faulty variant of recvBitfield: whatever message comes first is taken.
recvBitfieldAnyMessage(first) ==
    IF first.err THEN [err |-> TRUE, bf |-> <<>>]
    ELSE [err |-> FALSE, bf |-> first.msg.Payload]

\* recvBitfield: the first message read must be a bitfield message.
recvBitfield(first) ==
    IF first.err THEN [err |-> TRUE, bf |-> <<>>]
    ELSE IF first.msg = NilMsg THEN [err |-> TRUE, bf |-> <<>>]
    ELSE IF first.msg.ID # MsgBitfield THEN [err |-> TRUE, bf |-> <<>>]
    ELSE [err |-> FALSE, bf |-> first.msg.Payload]

\* Faulty variant of New: the socket is left open when the bitfield read fails.
NewLeavesOpen(o, infoHash) ==
    IF ~o.dial
    THEN [err |-> TRUE, conn |-> "none", client |-> NoClient]
    ELSE IF completeHandshake(o.hs, infoHash).err
    THEN [err |-> TRUE, conn |-> "closed", client |-> NoClient]
    ELSE IF recvBitfield(o.first).err
    THEN [err |-> TRUE, conn |-> "open", client |-> NoClient]
    ELSE [err |-> FALSE, conn |-> "open",
          client |-> [Choked |-> TRUE, Bitfield |-> recvBitfield(o.first).bf, nil |-> FALSE]]

\* New: dial, handshake, bitfield.  o is what the network does: o.dial (the
\* dial succeeds), o.hs (the remote handshake), o.first (the first message).
\* Returns the client, or err with the socket closed if it had been opened.
New(o, infoHash) ==
    IF ~o.dial
    THEN [err |-> TRUE, conn |-> "none", client |-> NoClient]
    ELSE IF completeHandshake(o.hs, infoHash).err
    THEN [err |-> TRUE, conn |-> "closed", client |-> NoClient]
    ELSE IF recvBitfield(o.first).err
    THEN [err |-> TRUE, conn |-> "closed", client |-> NoClient]
    ELSE [err |-> FALSE, conn |-> "open",
          client |-> [Choked |-> TRUE, Bitfield |-> recvBitfield(o.first).bf, nil |-> FALSE]]

----------------------------------------------------------------------------
(* client.go: pieceProgress *)

\* Faulty variant of copyPieceData: the end of the block is not checked.
copyPieceDataNoEndCheck(st, index, payload) ==
    LET p == ParsePieceMessage(index, payload)
    IN  IF p.err THEN [err |-> TRUE, n |-> 0, buf |-> st.buf]
        ELSE IF p.begin >= Len(st.buf) THEN [err |-> TRUE, n |-> 0, buf |-> st.buf]
        ELSE [err |-> FALSE, n |-> Len(p.block),
              buf |-> CopyAt(st.buf, p.begin, Len(st.buf), p.block)]

\* pieceProgress.copyPieceData: <<err, n, buf>> as a record.
copyPieceData(st, index, payload) ==
    LET p == ParsePieceMessage(index, payload)
    IN  IF p.err THEN [err |-> TRUE, n |-> 0, buf |-> st.buf]
        ELSE IF p.begin >= Len(st.buf) THEN [err |-> TRUE, n |-> 0, buf |-> st.buf]
        ELSE IF p.begin + Len(p.block) > Len(st.buf) THEN [err |-> TRUE, n |-> 0, buf |-> st.buf]
        ELSE [err |-> FALSE, n |-> Len(p.block),
              buf |-> CopyAt(st.buf, p.begin, Len(st.buf), p.block)]

\* Faulty variant of readMessage: a keep-alive is an error and a bitfield
\* message replaces the client's bitfield.
readMessageStrict(st, c, in) ==
    IF in.err THEN [err |-> TRUE, state |-> st, client |-> c]
    ELSE IF in.msg = NilMsg THEN [err |-> TRUE, state |-> st, client |-> c]
    ELSE IF in.msg.ID = MsgBitfield
    THEN [err |-> FALSE, state |-> st, client |-> [c EXCEPT !.Bitfield = in.msg.Payload]]
    ELSE [err |-> FALSE, state |-> st, client |-> c]

\* pieceProgress.readMessage on what client.Read returned (in.err: Read failed;
\* in.msg: the message, NilMsg for a keep-alive).  Returns err, the progress
\* and the client after the message.
readMessage(st, c, in) ==
    IF in.err THEN [err |-> TRUE, state |-> st, client |-> c]
    ELSE IF in.msg = NilMsg THEN [err |-> FALSE, state |-> st, client |-> c]
    ELSE IF in.msg.ID = MsgUnchoke
    THEN [err |-> FALSE, state |-> st, client |-> [c EXCEPT !.Choked = FALSE]]
    ELSE IF in.msg.ID = MsgChoke
    THEN [err |-> FALSE, state |-> st, client |-> [c EXCEPT !.Choked = TRUE]]
    ELSE IF in.msg.ID = MsgHave
    THEN LET h == ParseHaveMessage(in.msg.Payload)
         IN  IF h.err THEN [err |-> TRUE, state |-> st, client |-> c]
             ELSE [err |-> FALSE, state |-> st,
                   client |-> [c EXCEPT !.Bitfield = SetPiece(@, h.index)]]
    ELSE IF in.msg.ID = MsgPiece
    THEN LET r == copyPieceData(st, st.index, in.msg.Payload)
         IN  IF r.err THEN [err |-> TRUE, state |-> st, client |-> c]
             ELSE [err |-> FALSE,
                   state |-> [st EXCEPT !.buf = r.buf,
                                        !.downloaded = @ + r.n,
                                        !.backlog = @ - 1],
                   client |-> c]
    ELSE [err |-> FALSE, state |-> st, client |-> c]

\* Faulty variant of blockSize: the rest of the piece is asked for at once.
blockSizeWholeRest(st, length) == length - st.requested

\* Faulty variant of blockSize: the last block is not shortened.
blockSizeAlwaysMax(st, length) == MaxBlockSize

\* attemptDownloadPiece, lines 118-122: the size of the next block to request.
blockSize(st, length) ==
    IF length - st.requested < MaxBlockSize THEN length - st.requested ELSE MaxBlockSize

\* Faulty variant of canRequest: one request at a time (an if for the for of
\* line 117 with a window of one).
canRequestWindowOfOne(st, c, length) ==
    /\ ~c.Choked
    /\ st.backlog < 1
    /\ st.requested < length

\* Faulty variant of canRequest: the choked flag is not looked at.
canRequestIgnoringChoke(st, c, length) ==
    /\ st.backlog < MaxBacklog
    /\ st.requested < length

\* attemptDownloadPiece, lines 116-117: the request loop has a request to send.
canRequest(st, c, length) ==
    /\ ~c.Choked
    /\ st.backlog < MaxBacklog
    /\ st.requested < length

\* Faulty variant of checkIntegrity: every buffer passes.
checkIntegrityAlwaysNil(job, b) == [err |-> FALSE]

\* checkIntegrity: err iff the digest of the buffer is not the job's hash.
checkIntegrity(job, b) == [err |-> Sha1Sum(b) # job.hash]

----------------------------------------------------------------------------
(* The environment: what a peer may put on the socket *)

ReadErr == [err |-> TRUE, msg |-> NilMsg]
Got(m) == [err |-> FALSE, msg |-> m]

\* The bytes of piece index in the source file.
PieceBytes(index) ==
    SubSeq(Source(t.Length), index * t.PieceLength + 1,
           Min((index + 1) * t.PieceLength, t.Length))

\* The n source bytes of the piece from offset begin on (0 past its end).
GoodBlock(index, begin, n) ==
    [k \in 1..n |-> IF begin + k <= Len(PieceBytes(index))
                    THEN PieceBytes(index)[begin + k] ELSE 0]

\* A one-byte bitfield with the bits of the pieces in S set.
RECURSIVE BitsOf(_)
BitsOf(S) == IF S = {} THEN 0
             ELSE LET i == CHOOSE x \in S : TRUE
                  IN  Pow2(7 - i) + BitsOf(S \ {i})
BitfieldOf(S) == <<BitsOf(S)>>
FullBitfield == BitfieldOf(0..(NumPieces - 1))

\* What the network may do to New: for an honest peer the dial and the
\* handshake succeed and the first message is the bitfield of every piece.
NewOutcomes(w) ==
    IF peerKind[w] = "honest"
    THEN {[dial |-> TRUE, hs |-> t.InfoHash,
           first |-> Got(Message(MsgBitfield, FullBitfield))]}
    ELSE {[dial |-> FALSE, hs |-> "err", first |-> ReadErr]}
         \cup {[dial |-> TRUE, hs |-> h, first |-> f] :
                 h \in {"err", "otherhash"},
                 f \in {ReadErr, Got(Message(MsgBitfield, FullBitfield))}}
         \cup {[dial |-> TRUE, hs |-> t.InfoHash, first |-> f] :
                 f \in {ReadErr, Got(NilMsg), Got(Message(MsgUnchoke, <<>>))}
                       \cup {Got(Message(MsgBitfield, BitfieldOf(S))) :
                               S \in SUBSET (0..(NumPieces - 1))}}

\* Whether a socket write of worker w succeeds: always to an honest peer,
\* never once the deadline has passed, either way otherwise.
WriteOutcomes(w) ==
    IF peerKind[w] = "honest" THEN {TRUE}
    ELSE IF deadline[w] = "passed" THEN {FALSE}
    ELSE {TRUE, FALSE}

\* The piece messages an arbitrary peer may send during the attempt on job:
\* any begin up to the piece length, blocks of 0..MaxBlockSize+1 bytes holding
\* the source's bytes or zeros, the job's index or another, a short payload.
AnyPieceMsgs(job) ==
    UNION {{NewPieceMessage(i, b, GoodBlock(job.index, b, n)),
            NewPieceMessage(i, b, Zeros(n))} :
              i \in {job.index, job.index + 1},
              b \in 0..job.length,
              n \in 0..(MaxBlockSize + 1)}
    \cup {Message(MsgPiece, PutUint32(job.index))}

\* The other messages an arbitrary peer may send.
AnyControlMsgs ==
    {NilMsg, Message(MsgChoke, <<>>), Message(MsgUnchoke, <<>>),
     Message(MsgInterested, <<>>), Message(MsgHave, <<0, 0, 0>>)}
    \cup {NewHaveMessage(k) : k \in 0..NumPieces}

\* The oldest unanswered request of worker w (the lowest begin).
oldestRequest(w) ==
    LET b == CHOOSE x \in wire[w].inflight : \A y \in wire[w].inflight : x <= y
    IN  CHOOSE q \in {wire[w].reqs[k] : k \in 1..Len(wire[w].reqs)} : q.begin = b

\* The piece message an honest peer sends next: the answer to the oldest
\* unanswered request, with the source's bytes.
HonestPieceMsgs(w) ==
    IF wire[w].inflight = {} THEN {}
    ELSE LET r == oldestRequest(w)
         IN  {NewPieceMessage(r.index, r.begin, GoodBlock(r.index, r.begin, r.length))}

\* A flaky peer answers the oldest unanswered request too, with the source's
\* bytes or with zeros.
FlakyPieceMsgs(w) ==
    IF wire[w].inflight = {} THEN {}
    ELSE LET r == oldestRequest(w)
         IN  {NewPieceMessage(r.index, r.begin, GoodBlock(r.index, r.begin, r.length)),
              NewPieceMessage(r.index, r.begin, Zeros(r.length))}

\* A sloppy peer sends the source's bytes only, but also blocks nobody asked
\* for: the first block again, or an empty block.
SloppyPieceMsgs(w) ==
    HonestPieceMsgs(w)
    \cup {NewPieceMessage(pw[w].index, 0,
                          GoodBlock(pw[w].index, 0, Min(MaxBlockSize, pw[w].length))),
          NewPieceMessage(pw[w].index, 0, <<>>)}

\* What client.Read may return to worker w inside attemptDownloadPiece, by
\* the kind of its peer.  Once the deadline has passed every read fails.
Incoming(w) ==
    IF peerKind[w] = "honest"
    THEN IF client[w].Choked THEN {Got(Message(MsgUnchoke, <<>>))}
         ELSE {Got(m) : m \in HonestPieceMsgs(w)}
    ELSE IF deadline[w] = "passed" THEN {ReadErr}
    ELSE IF peerKind[w] = "flaky"
    THEN {ReadErr}
         \cup (IF client[w].Choked THEN {Got(Message(MsgUnchoke, <<>>))}
               ELSE {Got(m) : m \in FlakyPieceMsgs(w)})
    ELSE IF peerKind[w] = "sloppy"
    THEN {Got(NilMsg), Got(Message(MsgChoke, <<>>)), Got(Message(MsgUnchoke, <<>>))}
         \cup (IF state[w].backlog > -MaxUnrequested
               THEN {Got(m) : m \in SloppyPieceMsgs(w)} ELSE {})
    ELSE {ReadErr} \cup {Got(m) : m \in AnyControlMsgs}
         \cup (IF state[w].backlog > -MaxUnrequested
               THEN {Got(m) : m \in AnyPieceMsgs(pw[w])} ELSE {})

----------------------------------------------------------------------------
(* Torrent.startDownloadWorker *)

\* Faulty variant of afterNew: the error of New is not looked at.
afterNewAlwaysRange(n) == "range"

\* Lines 152-156: where the worker goes after peer.New.
afterNew(n) == IF n.err THEN "exited" ELSE "range"

\* Lines 160-161: SendUnchoke, SendInterested (their errors are dropped).
greeting == <<Message(MsgUnchoke, <<>>), Message(MsgInterested, <<>>)>>

\* Lines 151-161: New, defer Close, SendUnchoke, SendInterested.
StartWorker(w) ==
    /\ pc[w] = "start"
    /\ \E o \in NewOutcomes(w) :
         LET n == New(o, t.InfoHash)
         IN  /\ conn' = [conn EXCEPT ![w] = n.conn]
             /\ client' = [client EXCEPT ![w] = n.client]
             /\ pc' = [pc EXCEPT ![w] = afterNew(n)]
             /\ sent' = [sent EXCEPT ![w] = IF afterNew(n) = "exited" THEN @ ELSE @ \o greeting]
             /\ handshake' = [handshake EXCEPT ![w] = IF o.dial THEN o.hs ELSE "none"]
             /\ firstRead' = [firstRead EXCEPT ![w] =
                                IF o.dial /\ ~completeHandshake(o.hs, t.InfoHash).err
                                THEN <<o.first>> ELSE <<>>]
    /\ UNCHANGED <<call, ret, t, peerKind, workQueue, coordVars, deadline, pw, state, res, wire, requeued>>

\* Faulty variant of attemptDeadline: no deadline is set.
attemptDeadlineNever == "none"

\* Line 111: c.Conn.SetDeadline(time.Now().Add(30 * time.Second)).
attemptDeadline == "set"

\* Faulty variant of newProgress: the counters start as if a request were out.
newProgressOneOut(job) ==
    [index |-> job.index, buf |-> Zeros(job.length),
     downloaded |-> 0, requested |-> MaxBlockSize, backlog |-> 1]

\* Lines 103-107: the pieceProgress of a new attempt.
newProgress(job) ==
    [index |-> job.index, buf |-> Zeros(job.length),
     downloaded |-> 0, requested |-> 0, backlog |-> 0]

\* Faulty variant of hasJobPiece: the bitfield is not looked at.
hasJobPieceAlways(c, job) == TRUE

\* Line 164: c.Bitfield.HasPiece(pw.index).
hasJobPiece(c, job) == HasPiece(c.Bitfield, job.index)

\* Faulty variant of rangeReady: the worker waits for a job its peer has.
rangeReadyForOwnPiece(w) ==
    /\ pc[w] = "range"
    /\ workQueue # <<>>
    /\ HasPiece(client[w].Bitfield, Head(workQueue).index)

\* Line 163: the worker is at the receive of the range loop and a job waits.
rangeReady(w) ==
    /\ pc[w] = "range"
    /\ workQueue # <<>>

\* Line 163 with 164 and 102-112: receive a job; on a bitfield miss go to the
\* requeue send of line 165, else enter attemptDownloadPiece.
TakeWork(w) ==
    /\ rangeReady(w)
    /\ LET job == chanRecv(workQueue).job
       IN  /\ workQueue' = chanRecv(workQueue).rest
           /\ pw' = [pw EXCEPT ![w] = job]
           /\ requeued' = requeued \ {job.index}
           /\ IF ~hasJobPiece(client[w], job)
              THEN /\ pc' = [pc EXCEPT ![w] = "requeueMiss"]
                   /\ UNCHANGED <<state, deadline, wire>>
              ELSE /\ pc' = [pc EXCEPT ![w] = "download"]
                   /\ state' = [state EXCEPT ![w] = newProgress(job)]
                   /\ deadline' = [deadline EXCEPT ![w] = attemptDeadline]
                   /\ wire' = [wire EXCEPT ![w] = NoWire]
    /\ UNCHANGED <<call, ret, t, peerKind, handshake, firstRead, sent, coordVars, conn, client, res>>

\* Line 163: the range loop ends when workQueue is closed and drained; the
\* deferred Close runs.
RangeEnd(w) ==
    /\ pc[w] = "range"
    /\ workQueue = <<>>
    /\ closed
    /\ pc' = [pc EXCEPT ![w] = "exited"]
    /\ conn' = [conn EXCEPT ![w] = "closed"]
    /\ UNCHANGED <<call, ret, t, peerKind, handshake, firstRead, sent, workQueue, coordVars, deadline, client, pw, state, res, wire, requeued>>

\* Faulty variant of afterRequeue: the worker always goes on with the range loop.
afterRequeueAlwaysRange(at) == "range"

\* Faulty variant of afterRequeue: the worker returns after every requeue.
afterRequeueAlwaysExits(at) == "exited"

\* Where the worker goes after the requeue send of line 165, 173 or 180.
afterRequeue(at) == IF at = "requeueErr" THEN "exited" ELSE "range"

\* Lines 165, 173, 180: workQueue <- pw.  The send blocks while the channel
\* is full and panics if it is closed; after line 173 the worker returns.
Requeue(w) ==
    /\ pc[w] \in {"requeueMiss", "requeueErr", "requeueBad"}
    /\ closed \/ Len(workQueue) < Len(t.PieceHashes)
    /\ IF closed
       THEN /\ pc' = [pc EXCEPT ![w] = "panic"]
            /\ UNCHANGED <<workQueue, requeued, pw, conn>>
       ELSE /\ workQueue' = Append(workQueue, pw[w])
            /\ requeued' = requeued \cup {pw[w].index}
            /\ pw' = [pw EXCEPT ![w] = NoWork]
            /\ pc' = [pc EXCEPT ![w] = afterRequeue(pc[w])]
            /\ conn' = [conn EXCEPT ![w] =
                          IF afterRequeue(pc[w]) = "exited" THEN "closed" ELSE @]
    /\ UNCHANGED <<call, ret, t, peerKind, handshake, firstRead, sent, coordVars, deadline, client, state, res, wire>>

----------------------------------------------------------------------------
(* attemptDownloadPiece *)

inLoop(w) ==
    /\ pc[w] = "download"
    /\ state[w].downloaded < pw[w].length

\* Faulty variant of failAttempt: the worker returns without the send of line 173.
failAttemptDropsJob(w) ==
    /\ pc' = [pc EXCEPT ![w] = "exited"]
    /\ state' = [state EXCEPT ![w] = NoProgress]
    /\ deadline' = [deadline EXCEPT ![w] = "none"]

\* Faulty variant of failAttempt: the pieceProgress is one value shared by the
\* workers, and a failed attempt resets it for all of them.
failAttemptShared(w) ==
    /\ pc' = [pc EXCEPT ![w] = "requeueErr"]
    /\ state' = [other \in Workers |-> NoProgress]
    /\ deadline' = [deadline EXCEPT ![w] = "none"]

\* attemptDownloadPiece returns an error: the deadline is cleared (line 112)
\* and the worker stands at the requeue send of line 173.
failAttempt(w) ==
    /\ pc' = [pc EXCEPT ![w] = "requeueErr"]
    /\ state' = [state EXCEPT ![w] = NoProgress]
    /\ deadline' = [deadline EXCEPT ![w] = "none"]

\* Lines 117-130, one turn of the request loop: c.SendRequest, then the counters.
SendRequest(w) ==
    /\ inLoop(w)
    /\ canRequest(state[w], client[w], pw[w].length)
    /\ \E ok \in WriteOutcomes(w) :
         LET size == blockSize(state[w], pw[w].length)
             req  == [index |-> pw[w].index, begin |-> state[w].requested, length |-> size]
         IN  IF ok
             THEN /\ state' = [state EXCEPT ![w].backlog = @ + 1,
                                            ![w].requested = @ + size]
                  /\ wire' = [wire EXCEPT ![w].reqs = Append(@, req),
                                          ![w].inflight = @ \cup {req.begin}]
                  /\ UNCHANGED <<pc, deadline>>
             ELSE /\ failAttempt(w)
                  /\ UNCHANGED wire
    /\ UNCHANGED <<call, ret, t, peerKind, handshake, firstRead, sent, workQueue, coordVars, conn, client, pw, res, requeued>>

\* The requests still unanswered after message in has been handled without error.
stillInflight(w, in) ==
    IF ~in.err /\ in.msg # NilMsg /\ in.msg.ID = MsgPiece
    THEN wire[w].inflight \ {ParsePieceMessage(pw[w].index, in.msg.Payload).begin}
    ELSE wire[w].inflight

\* Line 133: state.readMessage(), once the request loop has nothing to send.
ReadMessage(w) ==
    /\ inLoop(w)
    /\ ~canRequest(state[w], client[w], pw[w].length)
    /\ \E in \in Incoming(w) :
         LET r == readMessage(state[w], client[w], in)
         IN  /\ wire' = [wire EXCEPT ![w].inflight = IF r.err THEN @ ELSE stillInflight(w, in)]
             /\ IF r.err
                THEN /\ failAttempt(w)
                     /\ UNCHANGED client
                ELSE /\ state' = [state EXCEPT ![w] = r.state]
                     /\ client' = [client EXCEPT ![w] = r.client]
                     /\ UNCHANGED <<pc, deadline>>
    /\ UNCHANGED <<call, ret, t, peerKind, handshake, firstRead, sent, workQueue, coordVars, conn, pw, res, requeued>>

\* The clock: the deadline of line 111 passes while the attempt is under way.
\* An honest peer answers in time.
DeadlinePasses(w) ==
    /\ pc[w] = "download"
    /\ deadline[w] = "set"
    /\ peerKind[w] # "honest"
    /\ deadline' = [deadline EXCEPT ![w] = "passed"]
    /\ UNCHANGED <<call, ret, t, peerKind, handshake, firstRead, sent, workQueue, coordVars, pc, conn, client, pw, state, res, wire, requeued>>

\* Lines 114, 139 and 177-184: the loop ends, attemptDownloadPiece returns the
\* buffer, checkIntegrity; on a mismatch the worker stands at the requeue
\* send of line 180, else it sends have and stands at the send of line 185.
PieceDone(w) ==
    /\ pc[w] = "download"
    /\ ~(state[w].downloaded < pw[w].length)
    /\ deadline' = [deadline EXCEPT ![w] = "none"]
    /\ state' = [state EXCEPT ![w] = NoProgress]
    /\ IF checkIntegrity(pw[w], state[w].buf).err
       THEN /\ pc' = [pc EXCEPT ![w] = "requeueBad"]
            /\ UNCHANGED <<res, pw, sent>>
       ELSE /\ pc' = [pc EXCEPT ![w] = "publish"]
            /\ sent' = [sent EXCEPT ![w] = Append(@, NewHaveMessage(pw[w].index))]
            /\ res' = [res EXCEPT ![w] = [index |-> pw[w].index, buf |-> state[w].buf]]
            /\ pw' = [pw EXCEPT ![w] = NoWork]
    /\ UNCHANGED <<call, ret, t, peerKind, handshake, firstRead, workQueue, coordVars, conn, client, wire, requeued>>

----------------------------------------------------------------------------
(* Torrent.Download *)

\* Lines 222-226 with line 185: the coordinator receives on the unbuffered
\* channel results what worker w is sending, copies it into the image and
\* counts it; the worker goes back to the range loop.
Collect(w) ==
    /\ dpc = "collect"
    /\ collecting
    /\ pc[w] = "publish"
    /\ buf' = writePiece(buf, res[w])
    /\ donePieces' = donePieces + 1
    /\ collected' = Append(collected, res[w])
    /\ pc' = [pc EXCEPT ![w] = "range"]
    /\ res' = [res EXCEPT ![w] = NoResult]
    /\ UNCHANGED <<call, ret, t, peerKind, handshake, firstRead, sent, workQueue, closed, dpc, conn, deadline, client, pw, state, wire, requeued>>

\* Lines 222 and 232-234: the loop ends, close(workQueue), return buf, nil.
CloseAndReturn ==
    /\ dpc = "collect"
    /\ ~collecting
    /\ closed' = TRUE
    /\ dpc' = "returned"
    /\ UNCHANGED <<call, ret, t, peerKind, handshake, firstRead, sent, workQueue, buf, donePieces, collected,
                   pc, conn, deadline, client, pw, state, res, wire, requeued>>

----------------------------------------------------------------------------
(* Specifications *)

Torrent(pieceLength, length, peers) ==
    [PieceHashes |-> PieceHashesOf(pieceLength, length),
     PieceLength |-> pieceLength,
     Length      |-> length,
     Peers       |-> peers,
     InfoHash    |-> "infohash"]

All(kind) == [w \in Workers |-> kind]

\* Two pieces (2 and 1 bytes), two arbitrary peers.
TwoPeers == [t |-> Torrent(2, 3, {1, 2}), kind |-> All("flaky")]
\* Two pieces (six blocks, two blocks), one honest peer.
OneHonest == [t |-> Torrent(WindowLength, WindowLength + 3, {1}), kind |-> All("honest")]
\* One piece of six blocks, one sloppy peer.
Window == [t |-> Torrent(WindowLength, WindowLength, {1}), kind |-> All("sloppy")]
\* One piece of two blocks, one arbitrary peer.
OneAny == [t |-> Torrent(3, 3, {1}), kind |-> All("any")]
\* No peers at all.
NoPeers == [t |-> Torrent(2, 3, {}), kind |-> All("any")]

InitWith(cfg) ==
    /\ t = cfg.t
    /\ peerKind = cfg.kind
    /\ workQueue = SeedQueue
    /\ closed = FALSE
    /\ buf = Zeros(t.Length)
    /\ donePieces = 0
    /\ dpc = "collect"
    /\ collected = <<>>
    /\ pc = [w \in Workers |-> IF w \in t.Peers THEN "start" ELSE "absent"]
    /\ conn = [w \in Workers |-> "none"]
    /\ deadline = [w \in Workers |-> "none"]
    /\ client = [w \in Workers |-> NoClient]
    /\ pw = [w \in Workers |-> NoWork]
    /\ state = [w \in Workers |-> NoProgress]
    /\ res = [w \in Workers |-> NoResult]
    /\ wire = [w \in Workers |-> NoWire]
    /\ requeued = {}
    /\ handshake = [w \in Workers |-> "none"]
    /\ firstRead = [w \in Workers |-> <<>>]
    /\ sent = [w \in Workers |-> <<>>]

\* No pure function is being called: the state is that of a download.
NoCall == [fn |-> "none"]

Init ==
    /\ call = NoCall
    /\ ret = <<>>
    /\ \E cfg \in {TwoPeers, OneHonest, Window, OneAny, NoPeers} : InitWith(cfg)

Next ==
    \/ \E w \in Workers : StartWorker(w)
    \/ \E w \in Workers : TakeWork(w)
    \/ \E w \in Workers : RangeEnd(w)
    \/ \E w \in Workers : Requeue(w)
    \/ \E w \in Workers : SendRequest(w)
    \/ \E w \in Workers : ReadMessage(w)
    \/ \E w \in Workers : DeadlinePasses(w)
    \/ \E w \in Workers : PieceDone(w)
    \/ \E w \in Workers : Collect(w)
    \/ CloseAndReturn

\* The Go scheduler runs every goroutine that can run; a dial, a handshake
\* and a bitfield read return within their timeouts, a socket read or write
\* under a deadline returns, and time passes.
Fairness ==
    /\ \A w \in Workers :
         /\ WF_vars(StartWorker(w))
         /\ WF_vars(TakeWork(w))
         /\ WF_vars(RangeEnd(w))
         /\ WF_vars(Requeue(w))
         /\ WF_vars(SendRequest(w))
         /\ WF_vars(ReadMessage(w))
         /\ WF_vars(DeadlinePasses(w))
         /\ WF_vars(PieceDone(w))
         /\ WF_vars(Collect(w))
    /\ WF_vars(CloseAndReturn)

Spec == Init /\ [][Next]_vars /\ Fairness

----------------------------------------------------------------------------
(* bencode.go: Go values, strconv, Encode *)

\* The byte of a character (ASCII), for the characters the inputs are made of.
B(c) ==
    CASE c = "i" -> 105 [] c = "l" -> 108 [] c = "d" -> 100 [] c = "e" -> 101
      [] c = ":" -> 58  [] c = "-" -> 45  [] c = "+" -> 43
      [] c = "0" -> 48  [] c = "1" -> 49  [] c = "2" -> 50  [] c = "3" -> 51
      [] c = "a" -> 97  [] c = "b" -> 98  [] c = "x" -> 120
      [] c = "c" -> 99  [] c = "f" -> 102 [] c = "g" -> 103 [] c = "h" -> 104
      [] c = "m" -> 109 [] c = "n" -> 110 [] c = "o" -> 111 [] c = "p" -> 112
      [] c = "s" -> 115 [] c = "t" -> 116 [] c = "u" -> 117 [] c = " " -> 32

\* A byte string, written as the tuple of its characters.
Str(cs) == [k \in 1..Len(cs) |-> B(cs[k])]

IsDigit(c) == c >= B("0") /\ c <= B("0") + 9

\* A Go value held in an interface{}: its dynamic type, its content, and for a
\* slice whether it is the nil slice.  A map is a function from its keys.
GoValue(type, v) == [type |-> type, v |-> v, nil |-> FALSE]
GoString(b) == GoValue("string", b)
GoBytes(b) == GoValue("[]byte", b)
GoInt(n) == GoValue("int", n)
GoInt64(n) == GoValue("int64", n)
GoList(items) == GoValue("[]interface{}", items)
GoMap(m) == GoValue("map[string]interface{}", m)
\* var list []interface{}
NilList == [type |-> "[]interface{}", v |-> <<>>, nil |-> TRUE]
\* The nil interface{} that comes with an error.
NilValue == [type |-> "nil", v |-> <<>>, nil |-> TRUE]

\* The decimal digits of n >= 0.
RECURSIVE FormatUint(_)
FormatUint(n) ==
    IF n < 10 THEN <<B("0") + n>>
    ELSE FormatUint(n \div 10) \o <<B("0") + (n % 10)>>

\* Faulty variant of Itoa: the sign is not written.
ItoaNoSign(n) == IF n < 0 THEN FormatUint(-n) ELSE FormatUint(n)

\* strconv.Itoa and strconv.FormatInt(v, 10).
Itoa(n) == IF n < 0 THEN <<B("-")>> \o FormatUint(-n) ELSE FormatUint(n)

\* The number written by the digits ds.
RECURSIVE DigitsValue(_)
DigitsValue(ds) ==
    IF ds = <<>> THEN 0
    ELSE DigitsValue(SubSeq(ds, 1, Len(ds) - 1)) * 10 + (ds[Len(ds)] - B("0"))

\* strconv.ParseInt(s, 10, 64): an optional sign, then one or more digits and
\* nothing else.  (The inputs have few digits: no value is out of range.)
ParseInt(s) ==
    LET signed == s # <<>> /\ s[1] \in {B("+"), B("-")}
        ds     == IF signed THEN Tail(s) ELSE s
    IN  IF ds = <<>> \/ \E k \in 1..Len(ds) : ~IsDigit(ds[k])
        THEN [err |-> TRUE, n |-> 0]
        ELSE [err |-> FALSE,
              n |-> IF signed /\ s[1] = B("-") THEN -DigitsValue(ds) ELSE DigitsValue(ds)]

\* strconv.Atoi: ParseInt(s, 10, 0), an int of 64 bits.
Atoi(s) == ParseInt(s)

\* a < b for Go strings: byte by byte, a proper prefix first.
StrLess(a, b) ==
    \/ \E k \in 1..Min(Len(a), Len(b)) :
          /\ a[k] < b[k]
          /\ \A j \in 1..(k - 1) : a[j] = b[j]
    \/ /\ Len(a) < Len(b)
       /\ \A j \in 1..Len(a) : a[j] = b[j]

\* Faulty variant of SortStrings: descending order.
RECURSIVE SortStringsDescending(_)
SortStringsDescending(S) ==
    IF S = {} THEN <<>>
    ELSE LET m == CHOOSE x \in S : \A y \in S \ {x} : StrLess(y, x)
         IN  <<m>> \o SortStringsDescending(S \ {m})

\* Lines 54-58: the keys of the map, then sort.Strings.
RECURSIVE SortStrings(_)
SortStrings(S) ==
    IF S = {} THEN <<>>
    ELSE LET m == CHOOSE x \in S : \A y \in S \ {x} : StrLess(x, y)
         IN  <<m>> \o SortStrings(S \ {m})

\* encode: [err, out], out being what was written to the buffer.
RECURSIVE encode(_)
RECURSIVE encodeItems(_)
RECURSIVE encodeEntries(_, _)

\* Lines 44-48: the items of a list in order, stopping at the first error.
encodeItems(items) ==
    IF items = <<>> THEN [err |-> FALSE, out |-> <<>>]
    ELSE LET h == encode(Head(items))
         IN  IF h.err THEN h
             ELSE LET r == encodeItems(Tail(items))
                  IN  [err |-> r.err, out |-> h.out \o r.out]

\* Lines 60-67: each key in the order of keys, then its value.
encodeEntries(keys, m) ==
    IF keys = <<>> THEN [err |-> FALSE, out |-> <<>>]
    ELSE LET k == encode(GoString(Head(keys)))
             x == encode(m[Head(keys)])
         IN  IF x.err THEN x
             ELSE LET r == encodeEntries(Tail(keys), m)
                  IN  [err |-> r.err, out |-> k.out \o x.out \o r.out]

encode(data) ==
    IF data.type \in {"string", "[]byte"}
    THEN [err |-> FALSE, out |-> Itoa(Len(data.v)) \o <<B(":")>> \o data.v]
    ELSE IF data.type \in {"int", "int64"}
    THEN [err |-> FALSE, out |-> <<B("i")>> \o Itoa(data.v) \o <<B("e")>>]
    ELSE IF data.type = "[]interface{}"
    THEN LET r == encodeItems(data.v)
         IN  [err |-> r.err, out |-> <<B("l")>> \o r.out \o <<B("e")>>]
    ELSE IF data.type = "map[string]interface{}"
    THEN LET r == encodeEntries(SortStrings(DOMAIN data.v), data.v)
         IN  [err |-> r.err, out |-> <<B("d")>> \o r.out \o <<B("e")>>]
    ELSE [err |-> TRUE, out |-> <<>>]

\* Encode: [err, out]; out is nil on an error.
Encode(data) ==
    IF encode(data).err THEN [err |-> TRUE, out |-> <<>>] ELSE encode(data)

----------------------------------------------------------------------------
(* bencode.go: Decode *)

\* Positions are Go's: data[k] is the byte at offset k, from 0.
At(data, k) == data[k + 1]
\* data[a:b]
Slice(data, a, b) == SubSeq(data, a + 1, b)

\* The for loops of lines 105 and 124: the first offset from pos on where the
\* byte c stands, len(data) if there is none.
IndexFrom(data, pos, c) ==
    IF \E k \in pos..(Len(data) - 1) : At(data, k) = c
    THEN CHOOSE k \in pos..(Len(data) - 1) :
            /\ At(data, k) = c
            /\ \A j \in pos..(k - 1) : At(data, j) # c
    ELSE Len(data)

\* What a decode function returns on an error: nil, start, err.
DecodeErr(start) == [err |-> TRUE, val |-> NilValue, pos |-> start]
Decoded(val, pos) == [err |-> FALSE, val |-> val, pos |-> pos]

decodeInt(data, start) ==
    IF start >= Len(data) \/ At(data, start) # B("i") THEN DecodeErr(start)
    ELSE LET end == IndexFrom(data, start + 1, B("e"))
         IN  IF end >= Len(data) THEN DecodeErr(start)
             ELSE LET num == ParseInt(Slice(data, start + 1, end))
                  IN  IF num.err THEN DecodeErr(start)
                      ELSE Decoded(GoInt(num.n), end + 1)

decodeString(data, start) ==
    LET colon == IndexFrom(data, start, B(":"))
    IN  IF colon >= Len(data) THEN DecodeErr(start)
        ELSE LET length == Atoi(Slice(data, start, colon))
             IN  IF length.err THEN DecodeErr(start)
                 ELSE IF colon + 1 + length.n > Len(data) THEN DecodeErr(start)
                 ELSE Decoded(GoString(Slice(data, colon + 1, colon + 1 + length.n)),
                              colon + 1 + length.n)

RECURSIVE decode(_, _)
RECURSIVE decodeListLoop(_, _, _, _)
RECURSIVE decodeDictLoop(_, _, _, _)

\* decodeList from line 154 on: the loop at pos with the items list so far.
decodeListLoop(data, start, pos, list) ==
    IF pos < Len(data) /\ At(data, pos) # B("e")
    THEN LET item == decode(data, pos)
         IN  IF item.err THEN DecodeErr(start)
             ELSE decodeListLoop(data, start, item.pos, GoList(Append(list.v, item.val)))
    ELSE IF pos >= Len(data) THEN DecodeErr(start)
    ELSE Decoded(list, pos + 1)

decodeList(data, start) ==
    IF start >= Len(data) \/ At(data, start) # B("l") THEN DecodeErr(start)
    ELSE decodeListLoop(data, start, start + 1, NilList)

\* dict[keyStr] = value
MapSet(m, key, value) ==
    [k \in (DOMAIN m) \cup {key} |-> IF k = key THEN value ELSE m[k]]

\* decodeDict from line 178 on: the loop at pos with the map dict so far.
decodeDictLoop(data, start, pos, dict) ==
    IF pos < Len(data) /\ At(data, pos) # B("e")
    THEN LET key == decode(data, pos)
         IN  IF key.err THEN DecodeErr(start)
             ELSE IF key.val.type # "string" THEN DecodeErr(start)
             ELSE LET value == decode(data, key.pos)
                  IN  IF value.err THEN DecodeErr(start)
                      ELSE decodeDictLoop(data, start, value.pos,
                                          MapSet(dict, key.val.v, value.val))
    ELSE IF pos >= Len(data) THEN DecodeErr(start)
    ELSE Decoded(GoMap(dict), pos + 1)

decodeDict(data, start) ==
    IF start >= Len(data) \/ At(data, start) # B("d") THEN DecodeErr(start)
    ELSE decodeDictLoop(data, start, start + 1, <<>>)

decode(data, start) ==
    IF start >= Len(data) THEN DecodeErr(start)
    ELSE IF At(data, start) = B("i") THEN decodeInt(data, start)
    ELSE IF At(data, start) = B("l") THEN decodeList(data, start)
    ELSE IF At(data, start) = B("d") THEN decodeDict(data, start)
    ELSE IF IsDigit(At(data, start)) THEN decodeString(data, start)
    ELSE DecodeErr(start)

\* Decode: [err, val]; the position reached is dropped.
Decode(data) == [err |-> decode(data, 0).err, val |-> decode(data, 0).val]

----------------------------------------------------------------------------
(* torrent.go: Parse, parseTorrentDict *)

\* The length of a piece hash (torrent.go:137, 141, 145).
HashLen == 20

KeyAnnounce == Str(<<"a", "n", "n", "o", "u", "n", "c", "e">>)
KeyInfo == Str(<<"i", "n", "f", "o">>)
KeyPieces == Str(<<"p", "i", "e", "c", "e", "s">>)
KeyPieceLength == Str(<<"p", "i", "e", "c", "e", " ", "l", "e", "n", "g", "t", "h">>)
KeyLength == Str(<<"l", "e", "n", "g", "t", "h">>)
KeyName == Str(<<"n", "a", "m", "e">>)

\* dict[key]: the value, nil if the map has no such key.
MapGet(m, key) == IF key \in DOMAIN m THEN m[key] ELSE NilValue

NoTorrentFile ==
    [Announce |-> <<>>, InfoHash |-> <<>>, PieceHashes |-> <<>>,
     PieceLength |-> 0, Length |-> 0, Name |-> <<>>, nil |-> TRUE]

\* Lines 141-146: the hashes cut from the pieces string.
pieceHashesOf(pieces) ==
    [i \in 1..(Len(pieces) \div HashLen) |->
        SubSeq(pieces, (i - 1) * HashLen + 1, i * HashLen)]

\* parseTorrentDict: [err, torrent]; InfoHash is left zero.
parseTorrentDict(dict) ==
    LET announce    == MapGet(dict, KeyAnnounce)
        infoDict    == MapGet(dict, KeyInfo)
        pieces      == MapGet(infoDict.v, KeyPieces)
        pieceLength == MapGet(infoDict.v, KeyPieceLength)
        length      == MapGet(infoDict.v, KeyLength)
        name        == MapGet(infoDict.v, KeyName)
    IN  IF announce.type # "string" THEN [err |-> TRUE, torrent |-> NoTorrentFile]
        ELSE IF infoDict.type # "map[string]interface{}"
        THEN [err |-> TRUE, torrent |-> NoTorrentFile]
        ELSE IF pieces.type # "string" THEN [err |-> TRUE, torrent |-> NoTorrentFile]
        ELSE IF pieceLength.type # "int" THEN [err |-> TRUE, torrent |-> NoTorrentFile]
        ELSE IF length.type # "int" THEN [err |-> TRUE, torrent |-> NoTorrentFile]
        ELSE IF name.type # "string" THEN [err |-> TRUE, torrent |-> NoTorrentFile]
        ELSE IF Len(pieces.v) % HashLen # 0 THEN [err |-> TRUE, torrent |-> NoTorrentFile]
        ELSE [err |-> FALSE,
              torrent |-> [Announce    |-> announce.v,
                           InfoHash    |-> <<>>,
                           PieceHashes |-> pieceHashesOf(pieces.v),
                           PieceLength |-> pieceLength.v,
                           Length      |-> length.v,
                           Name        |-> name.v,
                           nil         |-> FALSE]]

\* Lines 90-100: the info value of the decoded dictionary, encoded again,
\* and the digest of those bytes.
infoHashOf(torrentDict) == Sha1Sum(Encode(MapGet(torrentDict, KeyInfo)).out)

\* Parse: [err, torrent].
Parse(data) ==
    LET decoded == Decode(data)
    IN  IF decoded.err THEN [err |-> TRUE, torrent |-> NoTorrentFile]
        ELSE IF decoded.val.type # "map[string]interface{}"
        THEN [err |-> TRUE, torrent |-> NoTorrentFile]
        ELSE IF parseTorrentDict(decoded.val.v).err
        THEN [err |-> TRUE, torrent |-> NoTorrentFile]
        ELSE IF KeyInfo \notin DOMAIN decoded.val.v
        THEN [err |-> TRUE, torrent |-> NoTorrentFile]
        ELSE IF Encode(MapGet(decoded.val.v, KeyInfo)).err
        THEN [err |-> TRUE, torrent |-> NoTorrentFile]
        ELSE [err |-> FALSE,
              torrent |-> [parseTorrentDict(decoded.val.v).torrent
                              EXCEPT !.InfoHash = infoHashOf(decoded.val.v)]]

----------------------------------------------------------------------------
(* tracker.go: parsePeers *)

\* tracker.go:96: 4 bytes IP + 2 bytes port
peerSize == 6

\* Faulty variant of Uint16: the low byte first.
Uint16LittleEndian(b) == b[2] * 256 + b[1]

\* binary.BigEndian.Uint16
Uint16(b) == b[1] * 256 + b[2]

\* parsePeers: [err, peers].
parsePeers(peersData) ==
    IF Len(peersData) % peerSize # 0 THEN [err |-> TRUE, peers |-> <<>>]
    ELSE [err |-> FALSE,
          peers |-> [i \in 1..(Len(peersData) \div peerSize) |->
                       LET offset == (i - 1) * peerSize
                       IN  [IP   |-> Slice(peersData, offset, offset + 4),
                            Port |-> Uint16(Slice(peersData, offset + 4, offset + 6))]]]

----------------------------------------------------------------------------
(* Calls of the pure functions *)

\* The call has returned.
Called(fn) == call.fn = fn /\ ret # <<>>

\* A Torrent as Open fills it from any descriptor Parse returned: n piece
\* hashes, whatever the lengths are.
TorrentWith(pieceLength, length, n) ==
    [PieceHashes |-> [i \in 1..n |-> Sha1Sum(<<i>>)],
     PieceLength |-> pieceLength,
     Length      |-> length,
     Peers       |-> {},
     InfoHash    |-> "infohash"]

\* The values Encode is called on: scalars of the four Go types it has a case
\* for, lists and maps of scalars, and lists and maps holding those.
ByteStrings == {Str(<<>>), Str(<<"1", ":">>)}
Keys == {Str(<<>>), Str(<<"a", "b">>), Str(<<"b">>)}
Scalars ==
    {GoString(b) : b \in ByteStrings} \cup {GoBytes(b) : b \in ByteStrings}
    \cup {GoInt(n) : n \in {-12, 0, 3}} \cup {GoInt64(-1)}
ListsOf(X) ==
    {NilList} \cup {GoList(l) : l \in UNION {[1..n -> X] : n \in 0..MaxItems}}
MapsOf(X) ==
    {GoMap(m) : m \in UNION {[K -> X] : K \in {J \in SUBSET Keys : Cardinality(J) <= MaxItems}}}
Flat == Scalars \cup ListsOf(Scalars) \cup MapsOf(Scalars)
Nested ==
    UNION {{GoList(<<x>>), GoList(<<GoInt(3), x>>), GoMap([k \in {Str(<<"a", "b">>)} |-> x])} :
             x \in Flat \ Scalars}
Values == Flat \cup Nested

RECURSIVE Concat(_)
Concat(ss) == IF ss = <<>> THEN <<>> ELSE Head(ss) \o Concat(Tail(ss))

\* The inputs Decode is called on.  Any run of up to MaxTokens tokens:
Tokens ==
    {Str(<<"i", "0", "e">>), Str(<<"i", "-", "1", "e">>), Str(<<"i", "0", "3", "e">>),
     Str(<<"0", ":">>), Str(<<"1", ":", "a">>), Str(<<"l">>), Str(<<"d">>), Str(<<"e">>)}
TokenInputs == {Concat(ts) : ts \in UNION {[1..n -> Tokens] : n \in 0..MaxTokens}}
\* dictionaries of two entries, keys in any order, with or without a tail:
KeyTokens ==
    {Str(<<"0", ":">>), Str(<<"1", ":", "a">>), Str(<<"2", ":", "a", "b">>),
     Str(<<"1", ":", "b">>), Str(<<"0", "1", ":", "a">>)}
ValueTokens == {Str(<<"i", "0", "e">>), Str(<<"l", "e">>), Str(<<"1", ":", "a">>)}
DictInputs ==
    {Concat(<<Str(<<"d">>), k1, v1, k2, v2, Str(<<"e">>), tail>>) :
        k1 \in KeyTokens, k2 \in KeyTokens, v1 \in ValueTokens, v2 \in ValueTokens,
        tail \in {<<>>, Str(<<"e">>)}}
\* integer tokens: i, a body of up to MaxBody bytes, and the final e or not.
IntBodies ==
    UNION {[1..n -> {B("0"), B("1"), B("3"), B("-"), B("+"), B("x")}] : n \in 0..MaxBody}
IntInputs == {<<B("i")>> \o body \o tail : body \in IntBodies, tail \in {<<>>, Str(<<"e">>)}}
Inputs == TokenInputs \cup DictInputs \cup IntInputs

BencodeInit ==
    /\ InitWith(NoPeers)
    /\ \/ \E v \in Values : call = [fn |-> "Encode", data |-> v]
       \/ \E b \in Inputs : call = [fn |-> "Decode", data |-> b]
    /\ ret = <<>>

CallEncode ==
    /\ call.fn = "Encode"
    /\ ret = <<>>
    /\ ret' = <<Encode(call.data)>>
    /\ UNCHANGED <<downloadVars, call>>

CallDecode ==
    /\ call.fn = "Decode"
    /\ ret = <<>>
    /\ ret' = <<Decode(call.data)>>
    /\ UNCHANGED <<downloadVars, call>>

\* Decode(encoded), as in TestEncodeDecodeRoundTrip.
DecodeEncoded ==
    /\ call.fn = "Encode"
    /\ Len(ret) = 1
    /\ ~ret[1].err
    /\ ret' = Append(ret, Decode(ret[1].out))
    /\ UNCHANGED <<downloadVars, call>>

\* Encode(decoded), as Parse does with the info dictionary.
EncodeDecoded ==
    /\ call.fn = "Decode"
    /\ Len(ret) = 1
    /\ ~ret[1].err
    /\ ret' = Append(ret, Encode(ret[1].val))
    /\ UNCHANGED <<downloadVars, call>>

BencodeNext == CallEncode \/ CallDecode \/ DecodeEncoded \/ EncodeDecoded

SpecBencode == BencodeInit /\ [][BencodeNext]_vars

\* The torrent files Parse is called on, written entry by entry as
\* create_test_torrent.go does through Encode, but also with the info keys in
\* another order than the sorted one and with integers written with a leading
\* zero, as other writers may.
WriteString(b) == Itoa(Len(b)) \o <<B(":")>> \o b
WriteInt(n, padded) ==
    <<B("i")>> \o (IF padded THEN <<B("0")>> ELSE <<>>) \o Itoa(n) \o <<B("e")>>
WriteDict(entries) ==
    <<B("d")>>
    \o Concat([k \in 1..Len(entries) |-> WriteString(entries[k][1]) \o entries[k][2]])
    \o <<B("e")>>

\* The pieces string of n bytes.
PiecesOf(n) == [k \in 1..n |-> k]

\* The info dictionary: length, name, piece length, pieces (the sorted
\* order), its entries written in the order given.
WriteInfo(length, pieceLength, pieces, padded, order) ==
    LET entries == <<<<KeyLength, WriteInt(length, padded)>>,
                     <<KeyName, WriteString(Str(<<"a">>))>>,
                     <<KeyPieceLength, WriteInt(pieceLength, padded)>>,
                     <<KeyPieces, pieces>>>>
    IN  WriteDict([k \in 1..Len(order) |-> entries[order[k]]])

\* The file: announce and info; as is, or without the announce entry, or with
\* a list for info, or cut before the final e.
WriteTorrent(info, shape) ==
    LET announce == <<KeyAnnounce, WriteString(Str(<<"t">>))>>
    IN  IF shape = "no announce" THEN WriteDict(<<<<KeyInfo, info>>>>)
        ELSE IF shape = "info is a list"
        THEN WriteDict(<<announce, <<KeyInfo, <<B("l")>> \o info \o <<B("e")>>>>>>)
        ELSE IF shape = "cut"
        THEN SubSeq(WriteDict(<<announce, <<KeyInfo, info>>>>), 1,
                    Len(WriteDict(<<announce, <<KeyInfo, info>>>>)) - 1)
        ELSE WriteDict(<<announce, <<KeyInfo, info>>>>)

Orders == {<<1, 2, 3, 4>>, <<4, 3, 2, 1>>, <<2, 1, 3, 4>>, <<1, 2, 3>>, <<1, 2, 4>>}
Shapes == {"whole", "no announce", "info is a list", "cut"}

\* Lengths 0..MaxFileLength, piece lengths 0..MaxFilePieceLength, pieces
\* strings of 0, 1 or 2 hashes or one byte short of one; the pieces value
\* is the string, or an integer.
TorrentFiles ==
    {[data   |-> WriteTorrent(WriteInfo(len, pl, pieces, padded, order), shape),
      info   |-> WriteInfo(len, pl, pieces, padded, order),
      pieces |-> pieces] :
        len \in 0..MaxFileLength, pl \in 0..MaxFilePieceLength,
        pieces \in {WriteString(PiecesOf(n)) : n \in {0, HashLen - 1, HashLen, 2 * HashLen}}
                   \cup {WriteInt(HashLen, FALSE)},
        padded \in BOOLEAN, order \in Orders, shape \in Shapes}

TorrentInit ==
    /\ InitWith(NoPeers)
    /\ \E f \in TorrentFiles : call = [fn |-> "Parse"] @@ f
    /\ ret = <<>>

CallParse ==
    /\ call.fn = "Parse"
    /\ ret = <<>>
    /\ ret' = <<Parse(call.data)>>
    /\ UNCHANGED <<downloadVars, call>>

TorrentNext == CallParse

SpecTorrent == TorrentInit /\ [][TorrentNext]_vars

\* The compact peer lists parsePeers is called on: up to MaxPeers entries
\* (the two of TestParsePeers, and the extremes), then nothing or the first
\* bytes of one more entry.
PeerEntries ==
    {<<192, 168, 1, 1, 31, 144>>, <<10, 0, 0, 1, 26, 225>>,
     <<0, 0, 0, 0, 0, 1>>, <<255, 255, 255, 255, 255, 254>>}
PeersData ==
    {Concat(es) \o SubSeq(e, 1, k) :
        es \in UNION {[1..n -> PeerEntries] : n \in 0..MaxPeers},
        e \in PeerEntries, k \in 0..(peerSize - 1)}

TrackerInit ==
    /\ InitWith(NoPeers)
    /\ \E b \in PeersData : call = [fn |-> "parsePeers", data |-> b]
    /\ ret = <<>>

CallParsePeers ==
    /\ call.fn = "parsePeers"
    /\ ret = <<>>
    /\ ret' = <<parsePeers(call.data)>>
    /\ UNCHANGED <<downloadVars, call>>

TrackerNext == CallParsePeers

SpecTracker == TrackerInit /\ [][TrackerNext]_vars

BoundsInit ==
    /\ \E pl \in 1..MaxPieceLength, len \in 0..MaxLength, n \in 1..MaxHashes :
         /\ InitWith([t |-> TorrentWith(pl, len, n), kind |-> All("any")])
         /\ \E i \in 0..(n - 1) :
              call = [fn |-> "calculateBoundsForPiece", index |-> i]
    /\ ret = <<>>

CallBounds ==
    /\ call.fn = "calculateBoundsForPiece"
    /\ ret = <<>>
    /\ ret' = <<calculateBoundsForPiece(call.index)>>
    /\ UNCHANGED <<downloadVars, call>>

BoundsNext == CallBounds

SpecBounds == BoundsInit /\ [][BoundsNext]_vars

\* The pieceProgress values readMessage is called on: a buffer of 1..MaxBufLen
\* bytes whose first bytes have arrived, the counters anywhere the loop of
\* attemptDownloadPiece can have taken them.
Progresses ==
    {[index |-> i, buf |-> CopyAt(Zeros(n), 0, n, Source(d)),
      downloaded |-> d, requested |-> q, backlog |-> k] :
        i \in 0..1, n \in 1..MaxBufLen, d \in 0..(MaxBufLen - 1),
        q \in {0, MaxBlockSize}, k \in 0..1}

\* The clients it is called with.
Clients ==
    {[Choked |-> ch, Bitfield |-> bf, nil |-> FALSE] :
        ch \in BOOLEAN, bf \in {BitfieldOf({}), BitfieldOf({1})}}

\* Blocks of 0..MaxBlockSize+1 bytes, none of them a byte of a fresh buffer.
Blocks == {[k \in 1..n |-> 50 + k] : n \in 0..(MaxBlockSize + 1)}

\* Message IDs of the protocol with no case in readMessage (interested, not
\* interested, bitfield, request, cancel) and an ID outside the protocol.
OtherIDs == {MsgInterested, 3, MsgBitfield, 6, 8, 20}

\* What client.Read may return: an error, a keep-alive, piece messages with the
\* job's index or another and any begin up to past the buffer, a piece payload
\* too short to hold index and begin, and every other kind of message.
Reads ==
    {ReadErr, Got(NilMsg), Got(Message(MsgChoke, <<>>)), Got(Message(MsgUnchoke, <<>>)),
     Got(Message(MsgHave, <<0, 0, 0>>)), Got(Message(MsgPiece, <<0, 0, 0, 0, 0, 0, 0>>))}
    \cup {Got(NewHaveMessage(k)) : k \in 0..2}
    \cup {Got(NewPieceMessage(i, b, blk)) :
            i \in 0..1, b \in 0..(MaxBufLen + 1), blk \in Blocks}
    \cup {Got(Message(id, p)) : id \in OtherIDs, p \in {<<>>, <<0, 0, 0, 1>>, <<255>>}}

ReadMessageInit ==
    /\ InitWith(NoPeers)
    /\ \E st \in Progresses, c \in Clients, in \in Reads :
         /\ st.downloaded < Len(st.buf)
         /\ call = [fn |-> "readMessage", st |-> st, c |-> c, in |-> in]
    /\ ret = <<>>

CallReadMessage ==
    /\ call.fn = "readMessage"
    /\ ret = <<>>
    /\ ret' = <<readMessage(call.st, call.c, call.in)>>
    /\ UNCHANGED <<downloadVars, call>>

ReadMessageNext == CallReadMessage

SpecReadMessage == ReadMessageInit /\ [][ReadMessageNext]_vars

----------------------------------------------------------------------------
(* Properties *)

\* Every worker Download started has returned.
AllWorkersExited == \A w \in t.Peers : pc[w] = "exited"

\* The piece indexes of the torrents above.
Indexes == {0, 1}

\* The torrent has one peer and it is honest: it completes the handshake,
\* advertises every piece, unchokes and answers every request correctly.
SingleHonestPeer == t.Peers = {1} /\ peerKind[1] = "honest"

\* C1: with a single honest peer, Download eventually returns and the image
\* it returns is byte for byte the source file.
C1_HonestPeerCompletes ==
    SingleHonestPeer => <>(dpc = "returned" /\ buf = Source(t.Length))

C1_Witness ==
    /\ SingleHonestPeer
    /\ dpc = "returned"
    /\ buf = Source(t.Length)
    /\ Len(t.PieceHashes) = 2

\* The bytes of the image at the place of piece index.
ImageOf(index) ==
    SubSeq(buf, calculateBoundsForPiece(index)[1] + 1, calculateBoundsForPiece(index)[2])

\* C2: Download has returned only if exactly num_pieces results were
\* consumed, and then each piece's range [i*piece_length, min((i+1)*piece_length,
\* length)) of the image holds the verified bytes of piece i, in whatever
\* order the results arrived.
C2_ReturnedImage ==
    dpc = "returned" =>
        /\ Len(collected) = Len(t.PieceHashes)
        /\ donePieces = Len(t.PieceHashes)
        /\ \A i \in 0..(Len(t.PieceHashes) - 1) :
             /\ \E k \in 1..Len(collected) :
                  /\ collected[k].index = i
                  /\ ImageOf(i) = collected[k].buf
             /\ Len(ImageOf(i)) = Min((i + 1) * t.PieceLength, t.Length) - i * t.PieceLength
             /\ Sha1Sum(ImageOf(i)) = t.PieceHashes[i + 1]

\* Download returned after the results arrived out of index order.
C2_Witness ==
    /\ dpc = "returned"
    /\ Len(collected) = 2
    /\ collected[1].index = 1
    /\ collected[2].index = 0

\* C3: once every worker has exited with fewer than num_pieces results
\* collected (an empty peer list included), Download is not stuck: it still
\* has a step to take, the one that detects the exhaustion and fails.
C3_ExhaustionDetected ==
    (AllWorkersExited /\ donePieces < Len(t.PieceHashes)) => ENABLED Next

\* C4: workQueue is closed only once the last of the num_pieces results has
\* been consumed, no worker then holds a job, sends a result or downloads,
\* and every worker still running at the close eventually exits.
C4_CloseThenExit ==
    /\ [](closed =>
            /\ donePieces = Len(t.PieceHashes)
            /\ Len(collected) = Len(t.PieceHashes)
            /\ \A w \in t.Peers : pc[w] \in {"start", "range", "exited"})
    /\ (closed ~> AllWorkersExited)

\* The queue is closed while a worker is still in its range loop.
C4_Witness ==
    /\ closed
    /\ \E w \in t.Peers : pc[w] = "range"

\* C5: workQueue never holds more than num_pieces jobs, and whenever a worker
\* stands at one of its requeue sends the queue has room, so the send does
\* not block.
C5_QueueHasRoom ==
    /\ Len(workQueue) <= Len(t.PieceHashes)
    /\ \A w \in Workers :
         pc[w] \in {"requeueMiss", "requeueErr", "requeueBad"} =>
             Len(workQueue) < Len(t.PieceHashes)

\* Two workers stand at a requeue send at once, the queue being empty.
C5_Witness ==
    /\ pc[1] \in {"requeueMiss", "requeueErr", "requeueBad"}
    /\ pc[2] \in {"requeueMiss", "requeueErr", "requeueBad"}
    /\ pc[1] # pc[2]

\* C6 as amended: a job pushed back onto workQueue is eventually taken from
\* it again by some worker, or else every worker has exited.
C6_RequeuedTakenWhileWorkersLive ==
    \A i \in Indexes : (i \in requeued) ~> (i \notin requeued \/ AllWorkersExited)

\* A pushed-back job waits in the queue while a worker is in its range loop.
C6_Witness ==
    /\ requeued # {}
    /\ \E w \in t.Peers : pc[w] = "range"

\* C6 as stated: every job pushed back onto workQueue is eventually taken
\* from it again by some worker.
C6_RequeuedTaken ==
    \A i \in Indexes : (i \in requeued) ~> (i \notin requeued)

\* C7: whatever the peer sent, a piece result on its way to the coordinator
\* or consumed by it has the digest the job expected, and so have the bytes
\* of the image at the place of every consumed piece.
C7_OnlyVerifiedResults ==
    /\ \A w \in Workers :
         res[w] # NoResult => Sha1Sum(res[w].buf) = t.PieceHashes[res[w].index + 1]
    /\ \A k \in 1..Len(collected) :
         /\ Sha1Sum(collected[k].buf) = t.PieceHashes[collected[k].index + 1]
         /\ Sha1Sum(ImageOf(collected[k].index)) = t.PieceHashes[collected[k].index + 1]

\* A worker has assembled a buffer that failed the check and a verified piece
\* has been consumed.
C7_Witness ==
    /\ \E w \in Workers : pc[w] = "requeueBad"
    /\ collected # <<>>

\* C8: during a single-piece download, whatever the peer sends,
\* downloaded <= requested <= length and backlog >= 0.
C8_ProgressInvariant ==
    \A w \in Workers :
        pc[w] = "download" =>
            /\ state[w].downloaded <= state[w].requested
            /\ state[w].requested <= pw[w].length
            /\ state[w].backlog >= 0

\* C9: at most MaxBacklog block requests are in flight (sent and not yet
\* answered by a piece message for that block) during a single-piece download.
C9_InflightBounded ==
    \A w \in Workers : Cardinality(wire[w].inflight) <= MaxBacklog

\* The step of worker w is the read of an unchoke message.
ReadsUnchoke(w) ==
    /\ inLoop(w)
    /\ ~canRequest(state[w], client[w], pw[w].length)
    /\ Got(Message(MsgUnchoke, <<>>)) \in Incoming(w)
    /\ client'[w] = readMessage(state[w], client[w], Got(Message(MsgUnchoke, <<>>))).client
    /\ state'[w] = state[w]

\* C10: a new session is choked; choked turns false only in the step that
\* reads an unchoke message; a request is written only while choked is false.
C10_ChokedUntilUnchoke ==
    [][\A w \in Workers :
          /\ (pc[w] = "start" /\ pc'[w] = "range") => client'[w].Choked
          /\ (client[w].Choked /\ ~client'[w].Choked) => ReadsUnchoke(w)
          /\ (wire'[w].reqs # wire[w].reqs /\ wire'[w].reqs # <<>>) => ~client[w].Choked
      ]_vars

\* A worker was unchoked, wrote requests and has been choked again.
C10_Witness ==
    \E w \in Workers :
        /\ pc[w] = "download"
        /\ client[w].Choked
        /\ wire[w].reqs # <<>>

\* C11: a peer session exists only if the info hash of the remote handshake is
\* the expected one; on any other hash New has returned an error, the socket
\* is closed and the worker has exited holding no job and having sent nothing.
C11_HandshakeDigestChecked ==
    \A w \in t.Peers :
        /\ ~client[w].nil => handshake[w] = t.InfoHash
        /\ handshake[w] \notin {"none", "err", t.InfoHash} =>
             /\ pc[w] = "exited"
             /\ conn[w] = "closed"
             /\ client[w] = NoClient
             /\ pw[w] = NoWork
             /\ wire[w] = NoWire
             /\ state[w] = NoProgress

\* One peer was rejected for its info hash while the other holds a session.
C11_Witness ==
    /\ handshake[1] = "otherhash"
    /\ pc[1] = "exited"
    /\ ~client[2].nil

\* How many entries of the work queue q are jobs for piece index.
CopiesIn(q, index) == Cardinality({k \in 1..Len(q) : q[k].index = index})

\* C19: a worker enters the download of a job, and writes a request for it,
\* only if its peer's bitfield has the job's piece; a job whose piece the
\* bitfield lacks goes to the requeue send with nothing written, is appended
\* to the work queue as it was seeded, and the worker is back at the range loop.
C19_BitfieldMissRequeued ==
    [][\A w \in Workers :
          /\ (pc[w] = "range" /\ pc'[w] = "download") =>
                HasPiece(client[w].Bitfield, pw'[w].index)
          /\ (pc[w] = "range" /\ pc'[w] # "range" /\ workQueue # <<>>
                /\ ~HasPiece(client[w].Bitfield, Head(workQueue).index)) =>
                /\ pc'[w] = "requeueMiss"
                /\ pw'[w] = Head(workQueue)
                /\ wire'[w] = wire[w]
                /\ state'[w] = NoProgress
          /\ (pc[w] = "requeueMiss" /\ pc'[w] # "requeueMiss") =>
                /\ pw[w] = SeedQueue[pw[w].index + 1]
                /\ workQueue' = Append(workQueue, pw[w])
                /\ pc'[w] = "range"
                /\ wire'[w] = wire[w]
          /\ (wire'[w].reqs # wire[w].reqs /\ wire'[w].reqs # <<>>) =>
                /\ HasPiece(client[w].Bitfield, pw[w].index)
                /\ wire'[w].reqs[Len(wire'[w].reqs)].index = pw[w].index
      ]_vars

\* Worker 1, alone so far, has pushed back a job its peer does not have and
\* stands at the range loop again.
C19_Witness ==
    /\ pc[2] = "start"
    /\ pc[1] = "range"
    /\ workQueue # <<>>
    /\ workQueue[Len(workQueue)].index \in requeued
    /\ ~HasPiece(client[1].Bitfield, workQueue[Len(workQueue)].index)

\* C20: an attempt that ends before the piece is complete (a failed read or
\* write, the deadline, a malformed or mismatched piece message) leaves the
\* worker at the requeue send still holding the job; the send appends the job
\* to the work queue, which then holds it exactly once, the socket is closed
\* and the worker has exited, for good.
C20_ErrorRequeuesOnceAndExits ==
    [][\A w \in Workers :
          /\ (pc[w] = "download" /\ pc'[w] # "download"
                /\ state[w].downloaded < pw[w].length) =>
                /\ pc'[w] = "requeueErr"
                /\ pw'[w] = pw[w]
                /\ workQueue' = workQueue
          /\ (pc[w] = "requeueErr" /\ pc'[w] # "requeueErr") =>
                /\ workQueue' = Append(workQueue, pw[w])
                /\ CopiesIn(workQueue', pw[w].index) = 1
                /\ pc'[w] = "exited"
                /\ conn'[w] = "closed"
          /\ pc[w] = "exited" => (pc'[w] = "exited" /\ pw'[w] = pw[w])
      ]_vars

\* A worker that held a session has exited before the queue was closed, and
\* the job it failed on waits at the end of the queue.
C20_Witness ==
    /\ ~closed
    /\ \E w \in t.Peers :
         /\ pc[w] = "exited"
         /\ ~client[w].nil
         /\ workQueue # <<>>
         /\ workQueue[Len(workQueue)].index \in requeued
         /\ peerKind[w] = "any"

\* C12: calculateBoundsForPiece(i) returns begin = i*piece_length and
\* end = min((i+1)*piece_length, length), for every piece index i.
C12_PieceBounds ==
    Called("calculateBoundsForPiece") =>
        ret[1] = <<call.index * t.PieceLength,
                   Min((call.index + 1) * t.PieceLength, t.Length)>>

\* The call was for a last piece that is shorter than piece_length.
C12_Witness ==
    /\ Called("calculateBoundsForPiece")
    /\ call.index > 0
    /\ call.index * t.PieceLength < t.Length
    /\ (call.index + 1) * t.PieceLength > t.Length
    /\ ret[1][2] = t.Length

\* The bencode value a Go value stands for: a byte string, an integer, a list
\* of values or a dictionary from byte strings to values.
RECURSIVE Bencoded(_)
Bencoded(x) ==
    IF x.type \in {"string", "[]byte"} THEN [tag |-> "bytes", v |-> x.v]
    ELSE IF x.type \in {"int", "int64"} THEN [tag |-> "integer", v |-> x.v]
    ELSE IF x.type = "[]interface{}"
    THEN [tag |-> "list", v |-> [k \in 1..Len(x.v) |-> Bencoded(x.v[k])]]
    ELSE IF x.type = "map[string]interface{}"
    THEN [tag |-> "dict", v |-> [k \in DOMAIN x.v |-> Bencoded(x.v[k])]]
    ELSE [tag |-> "none", v |-> <<>>]

\* C15 (as the code has it): Encode(v) succeeds, Decode(Encode(v)) succeeds
\* and is the same bencode value as v: the same bytes, the same integer, the
\* same items in order, the same keys with the same values, at every depth.
C15_RoundTripValue ==
    /\ Called("Encode") => ~ret[1].err
    /\ (call.fn = "Encode" /\ Len(ret) = 2) =>
          /\ ~ret[2].err
          /\ Bencoded(ret[2].val) = Bencoded(call.data)

\* The round trip of a map holding a negative integer, an empty and a
\* non-empty byte string under keys one of which is a prefix-free pair.
C15_Witness ==
    /\ call.fn = "Encode"
    /\ Len(ret) = 2
    /\ call.data.type = "[]interface{}"
    /\ Len(call.data.v) = 2
    /\ call.data.v[2].type = "map[string]interface{}"
    /\ DOMAIN call.data.v[2].v = {Str(<<"a", "b">>), Str(<<"b">>)}
    /\ call.data.v[2].v[Str(<<"b">>)] = GoInt(-12)

\* C15 (as stated): Decode(Encode(v)) is v itself, the Go value that was
\* encoded, of the same dynamic type.
C15_RoundTripSameGoValue ==
    (call.fn = "Encode" /\ Len(ret) = 2) => (~ret[2].err /\ ret[2].val = call.data)

\* The canonical form of the grammar: an integer body is 0, or an optional -
\* and digits that do not start with 0; a string length is 0 or digits that
\* do not start with 0.
CanonDigits(ds) ==
    /\ ds # <<>>
    /\ \A k \in 1..Len(ds) : IsDigit(ds[k])
    /\ ds[1] = B("0") => Len(ds) = 1
CanonIntBody(body) ==
    /\ body # <<>>
    /\ IF body[1] = B("-")
       THEN CanonDigits(Tail(body)) /\ Tail(body) # <<B("0")>>
       ELSE CanonDigits(body)

\* Where the canonically encoded value that starts at offset pos of b ends
\* (the offset after it), -1 if no such value starts there: list items are
\* canonical, dictionary keys are byte strings in strictly ascending order.
RECURSIVE CanonEnd(_, _)
RECURSIVE CanonItemsEnd(_, _)
RECURSIVE CanonPairsEnd(_, _, _)
CanonItemsEnd(b, pos) ==
    IF pos >= Len(b) THEN -1
    ELSE IF At(b, pos) = B("e") THEN pos + 1
    ELSE IF CanonEnd(b, pos) = -1 THEN -1
    ELSE CanonItemsEnd(b, CanonEnd(b, pos))
CanonPairsEnd(b, pos, last) ==
    IF pos >= Len(b) THEN -1
    ELSE IF At(b, pos) = B("e") THEN pos + 1
    ELSE IF ~IsDigit(At(b, pos)) \/ CanonEnd(b, pos) = -1 THEN -1
    ELSE LET keyEnd == CanonEnd(b, pos)
             key    == Slice(b, IndexFrom(b, pos, B(":")) + 1, keyEnd)
         IN  IF last # <<>> /\ ~StrLess(last[1], key) THEN -1
             ELSE IF CanonEnd(b, keyEnd) = -1 THEN -1
             ELSE CanonPairsEnd(b, CanonEnd(b, keyEnd), <<key>>)
CanonEnd(b, pos) ==
    IF pos >= Len(b) THEN -1
    ELSE IF At(b, pos) = B("i")
    THEN LET end == IndexFrom(b, pos + 1, B("e"))
         IN  IF end >= Len(b) \/ ~CanonIntBody(Slice(b, pos + 1, end)) THEN -1
             ELSE end + 1
    ELSE IF IsDigit(At(b, pos))
    THEN LET colon == IndexFrom(b, pos, B(":"))
         IN  IF colon >= Len(b) \/ ~CanonDigits(Slice(b, pos, colon)) THEN -1
             ELSE IF colon + 1 + DigitsValue(Slice(b, pos, colon)) > Len(b) THEN -1
             ELSE colon + 1 + DigitsValue(Slice(b, pos, colon))
    ELSE IF At(b, pos) = B("l") THEN CanonItemsEnd(b, pos + 1)
    ELSE IF At(b, pos) = B("d") THEN CanonPairsEnd(b, pos + 1, <<>>)
    ELSE -1

\* b is the canonical encoding of one value, whole.
Canonical(b) == CanonEnd(b, 0) = Len(b)

\* C16: for every canonically encoded b that Decode accepts,
\* Encode(Decode(b)) = b; and whatever Encode writes is canonical, the keys of
\* every dictionary in strictly ascending byte order.
C16_CanonicalReencoded ==
    /\ (call.fn = "Decode" /\ Len(ret) = 2 /\ Canonical(call.data)) =>
          (~ret[2].err /\ ret[2].out = call.data)
    /\ Called("Encode") => Canonical(ret[1].out)

\* A canonical dictionary of two entries was decoded and encoded again.
C16_Witness ==
    /\ call.fn = "Decode"
    /\ Len(ret) = 2
    /\ Canonical(call.data)
    /\ ret[1].val.type = "map[string]interface{}"
    /\ Cardinality(DOMAIN ret[1].val.v) = 2

\* b starts with an integer token that is malformed: the terminating e is
\* missing, or the body before it is empty, has a byte that is no digit (but
\* for one leading -), has a leading zero and is not the single digit 0, or
\* is -0.
MalformedInt(b) ==
    /\ b # <<>>
    /\ b[1] = B("i")
    /\ \/ IndexFrom(b, 1, B("e")) >= Len(b)
       \/ ~CanonIntBody(Slice(b, 1, IndexFrom(b, 1, B("e"))))

\* C17: Decode returns an error for every malformed integer token.
C17_MalformedIntRejected ==
    (Called("Decode") /\ MalformedInt(call.data)) => ret[1].err

\* The length of the string a pieces value of the file holds (the bytes
\* after its length prefix).
PiecesFieldLen(pieces) == Len(pieces) - (IndexFrom(pieces, 0, B(":")) + 1)

\* C13: a descriptor that Parse returns without error has
\* len(piece_hashes) * 20 = len(pieces field) and
\* ceil(length / piece_length) = len(piece_hashes).
C13_DescriptorInvariants ==
    (Called("Parse") /\ ~ret[1].err) =>
        /\ Len(ret[1].torrent.PieceHashes) * HashLen = PiecesFieldLen(call.pieces)
        /\ ret[1].torrent.PieceLength > 0
        /\ (ret[1].torrent.Length + ret[1].torrent.PieceLength - 1)
              \div ret[1].torrent.PieceLength = Len(ret[1].torrent.PieceHashes)

\* C14: the info digest Parse returns is the SHA-1 of the info value as its
\* bytes stand in the input.
C14_InfoHashOfOriginalBytes ==
    (Called("Parse") /\ ~ret[1].err) => ret[1].torrent.InfoHash = Sha1Sum(call.info)

\* C18: parsePeers(b) returns an error when len(b) is not a multiple of 6;
\* otherwise len(b)/6 peers in input order, the k-th with the address of
\* bytes 6k..6k+3 and the port 256 * byte 6k+4 + byte 6k+5.
C18_ParsePeers ==
    Called("parsePeers") =>
        IF Len(call.data) % 6 # 0
        THEN ret[1].err
        ELSE /\ ~ret[1].err
             /\ Len(ret[1].peers) * 6 = Len(call.data)
             /\ \A k \in 0..(Len(ret[1].peers) - 1) :
                  /\ ret[1].peers[k + 1].IP =
                        <<call.data[6 * k + 1], call.data[6 * k + 2],
                          call.data[6 * k + 3], call.data[6 * k + 4]>>
                  /\ ret[1].peers[k + 1].Port =
                        256 * call.data[6 * k + 5] + call.data[6 * k + 6]

\* The list of TestParsePeers was parsed: 192.168.1.1:8080, 10.0.0.1:6881.
C18_Witness ==
    /\ Called("parsePeers")
    /\ ~ret[1].err
    /\ Len(ret[1].peers) = 2
    /\ ret[1].peers[1] = [IP |-> <<192, 168, 1, 1>>, Port |-> 8080]
    /\ ret[1].peers[2] = [IP |-> <<10, 0, 0, 1>>, Port |-> 6881]

----------------------------------------------------------------------------
(* The worker's error paths and the session *)

\* The messages of a sequence, as a set.
Range(q) == {q[k] : k \in 1..Len(q)}

\* Worker w holds a buffer that attemptDownloadPiece is about to return and
\* whose digest is not the job's.
FailsIntegrity(w) ==
    /\ pc[w] = "download"
    /\ ~(state[w].downloaded < pw[w].length)
    /\ Sha1Sum(state[w].buf) # pw[w].hash

\* C21: when a fully downloaded piece fails the integrity check the worker
\* keeps the job, publishes nothing and writes nothing (no have), and its next
\* step appends the job to the work queue and takes it back to the receive of
\* the range loop, the socket still open, nothing having reached the
\* coordinator.
C21_IntegrityFailureRequeues ==
    [][\A w \in Workers :
         /\ FailsIntegrity(w) /\ pc'[w] # pc[w] =>
              /\ pc'[w] = "requeueBad"
              /\ pw'[w] = pw[w]
              /\ res'[w] = NoResult
              /\ sent'[w] = sent[w]
              /\ NewHaveMessage(pw[w].index) \notin Range(sent'[w])
              /\ conn'[w] = "open"
              /\ workQueue' = workQueue
              /\ collected' = collected
         /\ pc[w] = "requeueBad" /\ pc'[w] # pc[w] =>
              /\ workQueue' = Append(workQueue, pw[w])
              /\ pc'[w] = "range"
              /\ res'[w] = NoResult
              /\ sent'[w] = sent[w]
              /\ conn'[w] = "open"
              /\ collected' = collected]_vars

\* A worker is back at the range loop with its socket open, the requests of
\* its last attempt all answered, and the job of that attempt at the back of
\* the queue: the piece had failed the integrity check.
C21_Witness ==
    \E w \in Workers :
        /\ pc[w] = "range"
        /\ conn[w] = "open"
        /\ wire[w].reqs # <<>>
        /\ wire[w].inflight = {}
        /\ workQueue # <<>>
        /\ workQueue[Len(workQueue)].index = wire[w].reqs[1].index
        /\ wire[w].reqs[1].index \in requeued
        /\ \E v \in Workers : v # w /\ pc[v] = "publish"

\* What the network did to the New of worker w makes New fail: the dial, the
\* handshake, or the read of the bitfield message.
SessionFailed(w) ==
    \/ handshake[w] # t.InfoHash
    \/ firstRead[w] = <<>>
    \/ firstRead[w][1].err
    \/ firstRead[w][1].msg.ID # MsgBitfield

\* C22: a worker whose connect, handshake or initial bitfield read fails exits
\* with no client, no job and no open socket, having written nothing; the step
\* leaves the work queue, the results and the coordinator's state as they
\* were, and the worker takes no job afterwards.
C22_FailedSessionExitsSilently ==
    [][\A w \in Workers :
         /\ pc[w] = "start" /\ pc'[w] # "start" /\ SessionFailed(w)' =>
              /\ pc'[w] = "exited"
              /\ client'[w] = NoClient
              /\ pw'[w] = NoWork
              /\ sent'[w] = <<>>
              /\ conn'[w] # "open"
              /\ UNCHANGED <<workQueue, requeued, res, coordVars>>
         /\ pc[w] = "exited" /\ SessionFailed(w) =>
              /\ pc'[w] = "exited"
              /\ pw'[w] = NoWork
              /\ sent'[w] = <<>>]_vars

\* A worker has exited because the read of the bitfield message failed after
\* a good handshake, and the queue holds every job but the one the other
\* worker is downloading.
C22_Witness ==
    \E w \in Workers :
        /\ pc[w] = "exited"
        /\ handshake[w] = t.InfoHash
        /\ firstRead[w] = <<ReadErr>>
        /\ \E v \in Workers : pc[v] = "download" /\ Len(workQueue) = NumPieces - 1

----------------------------------------------------------------------------
(* readMessage *)

\* The call of readMessage was given a message with this ID.
ReadGot(id) ==
    /\ Called("readMessage")
    /\ ~call.in.err
    /\ call.in.msg # NilMsg
    /\ call.in.msg.ID = id

\* A piece payload that holds an index and a begin, the index being that of
\* the job, and whose block lies inside a buffer of n bytes.
FitsJob(payload, index, n) ==
    /\ Len(payload) >= 8
    /\ Uint32(SubSeq(payload, 1, 4)) = index
    /\ Uint32(SubSeq(payload, 5, 8)) < n
    /\ Uint32(SubSeq(payload, 5, 8)) + (Len(payload) - 8) <= n

\* C23: readMessage accepts a piece message exactly when its index is the
\* job's, begin < length and begin + len(block) <= length: then the block is
\* in the buffer at begin, downloaded has grown by its length and backlog has
\* dropped by one; otherwise readMessage returns an error and the buffer,
\* downloaded and backlog are as before.
C23_PieceMessageValidated ==
    ReadGot(MsgPiece) =>
        LET st      == call.st
            payload == call.in.msg.Payload
            begin   == Uint32(SubSeq(payload, 5, 8))
            block   == SubSeq(payload, 9, Len(payload))
            r       == ret[1]
        IN  IF FitsJob(payload, st.index, Len(st.buf))
            THEN /\ ~r.err
                 /\ Len(r.state.buf) = Len(st.buf)
                 /\ \A k \in 1..Len(st.buf) :
                      r.state.buf[k] = IF k > begin /\ k <= begin + Len(block)
                                       THEN block[k - begin] ELSE st.buf[k]
                 /\ r.state.downloaded = st.downloaded + Len(block)
                 /\ r.state.backlog = st.backlog - 1
            ELSE /\ r.err
                 /\ r.state.buf = st.buf
                 /\ r.state.downloaded = st.downloaded
                 /\ r.state.backlog = st.backlog

\* readMessage was called on a piece message of the job whose block starts
\* inside the buffer and ends one byte past it, or on one with the other index.
C23_Witness ==
    /\ ReadGot(MsgPiece)
    /\ Len(call.in.msg.Payload) > 8
    /\ ~FitsJob(call.in.msg.Payload, call.st.index, Len(call.st.buf))
    /\ \/ FitsJob(call.in.msg.Payload, call.st.index, Len(call.st.buf) + 1)
       \/ FitsJob(call.in.msg.Payload, 1 - call.st.index, Len(call.st.buf))

\* C24: a keep-alive, and a message whose ID is none of choke, unchoke, have
\* and piece, is no error and leaves the client (choked, bitfield) and the
\* progress (buffer, downloaded, requested, backlog) as they were.
C24_OtherMessagesIgnored ==
    /\ Called("readMessage")
    /\ ~call.in.err
    /\ \/ call.in.msg = NilMsg
       \/ call.in.msg.ID \notin {MsgChoke, MsgUnchoke, MsgHave, MsgPiece}
    => /\ ~ret[1].err
       /\ ret[1].client.Choked = call.c.Choked
       /\ ret[1].client.Bitfield = call.c.Bitfield
       /\ ret[1].state = call.st

\* readMessage was called on a bitfield message that differs from the
\* client's bitfield, the client unchoked and requests outstanding.
C24_Witness ==
    /\ ReadGot(MsgBitfield)
    /\ call.in.msg.Payload # call.c.Bitfield
    /\ Len(call.in.msg.Payload) = Len(call.c.Bitfield)
    /\ ~call.c.Choked
    /\ call.st.backlog > 0

----------------------------------------------------------------------------
(* attemptDownloadPiece: choke, requests, the end of the loop, the deadline *)

\* C25: the step that reads a choke message sets choked, takes the requests
\* unanswered at that moment out of backlog and takes requested back to the
\* first of them, so that the request loop asks for their blocks again after
\* the next unchoke.
C25_ChokeCancelsPending ==
    [][\A w \in Workers :
         /\ pc[w] = "download"
         /\ pc'[w] = "download"
         /\ ~client[w].Choked
         /\ client'[w].Choked
         /\ wire[w].inflight # {}
         => /\ state'[w].backlog = state[w].backlog - Cardinality(wire[w].inflight)
            /\ \A b \in wire[w].inflight : state'[w].requested <= b]_vars

\* C26: the requests written during one attempt start at offset 0, each
\* begins where the one before ended, and each asks for
\* min(MaxBlockSize, length - begin) bytes of the job's piece: none is empty,
\* none ends past the piece, no offset is asked for twice.
C26_RequestsContiguous ==
    \A w \in Workers :
        pc[w] = "download" =>
            LET reqs == wire[w].reqs
            IN  \A k \in 1..Len(reqs) :
                    /\ reqs[k].index = pw[w].index
                    /\ reqs[k].begin = IF k = 1 THEN 0
                                       ELSE reqs[k - 1].begin + reqs[k - 1].length
                    /\ reqs[k].length = Min(MaxBlockSize, pw[w].length - reqs[k].begin)
                    /\ reqs[k].length > 0
                    /\ reqs[k].begin + reqs[k].length <= pw[w].length
                    /\ \A j \in 1..(k - 1) : reqs[j].begin < reqs[k].begin

\* A worker has written more than MaxBacklog requests for one piece, the last
\* of them shorter than MaxBlockSize and ending at the end of the piece.
C26_Witness ==
    \E w \in Workers :
        /\ pc[w] = "download"
        /\ Len(wire[w].reqs) > MaxBacklog
        /\ wire[w].reqs[Len(wire[w].reqs)].length < MaxBlockSize
        /\ wire[w].reqs[Len(wire[w].reqs)].begin + wire[w].reqs[Len(wire[w].reqs)].length
             = pw[w].length

\* C27: attemptDownloadPiece returns the buffer only with downloaded equal to
\* the piece length, every block having been requested and every request
\* answered.
C27_LoopEndsAtExactLength ==
    [][\A w \in Workers :
         pc[w] = "download" /\ pc'[w] \in {"publish", "requeueBad"} =>
             /\ state[w].downloaded = pw[w].length
             /\ state[w].requested = pw[w].length
             /\ wire[w].inflight = {}]_vars

\* No worker has run yet: the work queue is as Download seeded it.
Seeded == dpc = "collect" /\ \A w \in Workers : pc[w] \in {"start", "absent"}

\* C28: the seeded work queue holds one job per piece, in index order; the
\* job of piece i has length piece_length, the last one
\* total_length - (num_pieces - 1) * piece_length; every length is positive.
C28_SeededJobs ==
    Seeded =>
        /\ Len(workQueue) = NumPieces
        /\ \A i \in 1..Len(workQueue) :
             /\ workQueue[i].index = i - 1
             /\ workQueue[i].hash = t.PieceHashes[i]
             /\ workQueue[i].length = IF i < NumPieces THEN t.PieceLength
                                      ELSE t.Length - (NumPieces - 1) * t.PieceLength
             /\ workQueue[i].length > 0

\* The first read of the session of worker w returned a bitfield message.
BitfieldFirst(w) ==
    /\ firstRead[w] # <<>>
    /\ ~firstRead[w][1].err
    /\ firstRead[w][1].msg # NilMsg
    /\ firstRead[w][1].msg.ID = MsgBitfield

\* C29: a worker has a client, and has written unchoke and interested (first
\* of all it writes), only if the first message read after the handshake was
\* a bitfield message; after a keep-alive, any other message or a failed read
\* in its place there is no client, the socket is closed, nothing was written
\* and the worker has exited.
C29_BitfieldFirst ==
    \A w \in Workers :
        /\ ~client[w].nil \/ sent[w] # <<>> =>
             /\ BitfieldFirst(w)
             /\ SubSeq(sent[w], 1, 2) = greeting
        /\ firstRead[w] # <<>> /\ ~BitfieldFirst(w) =>
             /\ client[w].nil
             /\ conn[w] = "closed"
             /\ sent[w] = <<>>
             /\ pc[w] = "exited"

\* One worker read a keep-alive where the bitfield message was due and has
\* exited with its socket closed; the other read a bitfield message and has
\* written unchoke and interested.
C29_Witness ==
    \E w, v \in Workers :
        /\ firstRead[w] = <<Got(NilMsg)>>
        /\ conn[w] = "closed"
        /\ BitfieldFirst(v)
        /\ sent[v] = greeting
        /\ pc[v] = "range"

\* C30: every attempt ends; it ends with a buffer of the piece's length or
\* with an error, and with the deadline cleared; once the deadline has passed
\* the next read or write of the attempt fails and ends it.
C30_AttemptTerminates ==
    /\ \A w \in Workers : (pc[w] = "download") ~> (pc[w] # "download")
    /\ [][\A w \in Workers :
            /\ pc[w] = "download" /\ pc'[w] # "download" =>
                 /\ deadline'[w] = "none"
                 /\ \/ pc'[w] = "requeueErr"
                    \/ /\ pc'[w] \in {"publish", "requeueBad"}
                       /\ Len(state[w].buf) = pw[w].length
            /\ pc[w] = "download" /\ deadline[w] = "passed" /\ inLoop(w)
                 /\ (state'[w] # state[w] \/ client'[w] # client[w]) =>
                 pc'[w] = "requeueErr"]_vars

\* The deadline has passed on an attempt whose peer never unchoked and to
\* which nothing was requested.
C30_Witness ==
    \E w \in Workers :
        /\ pc[w] = "download"
        /\ deadline[w] = "passed"
        /\ client[w].Choked
        /\ wire[w].reqs = <<>>
        /\ state[w].downloaded = 0

----------------------------------------------------------------------------
(* Ownership: sessions, sockets, jobs, channels *)

\* All that worker w holds: where it stands, its socket and deadline, its
\* client (choked, bitfield), the job, the progress and the result in hand,
\* and what it has written and read.
SessionOf(w) ==
    <<pc[w], conn[w], deadline[w], client[w], pw[w], state[w], res[w], wire[w],
      sent[w], handshake[w], firstRead[w]>>

\* C31: a step that changes anything a worker holds (its socket, choked flag,
\* bitfield, piece in progress; a failure or an exit included) changes nothing
\* that another worker holds; a worker's step that fails or exits changes
\* nothing of the coordinator either, so that what passes between workers
\* passes through the work queue and the results.
C31_SessionsIsolated ==
    [][\A w \in Workers :
         SessionOf(w)' # SessionOf(w) =>
            /\ \A v \in Workers \ {w} : SessionOf(v)' = SessionOf(v)
            /\ pc'[w] \in {"exited", "requeueErr", "requeueBad", "requeueMiss"} =>
                 UNCHANGED coordVars]_vars

\* One worker has exited after a transport error while the other is in the
\* middle of a piece, with bytes received and its socket open.
C31_Witness ==
    \E w, v \in Workers :
        /\ w # v
        /\ pc[w] = "exited"
        /\ wire[w].reqs # <<>>
        /\ pc[v] = "download"
        /\ state[v].downloaded > 0
        /\ ~client[v].Choked
        /\ conn[v] = "open"

\* Worker w writes to or reads from its socket in the step: a greeting or a
\* have, a request, or a message taken by readMessage.
UsesSocket(w) ==
    \/ sent'[w] # sent[w]
    \/ wire'[w].reqs # wire[w].reqs /\ wire'[w].reqs # <<>>
    \/ pc[w] = "download" /\ pc'[w] = "download"
         /\ (state'[w] # state[w] \/ client'[w] # client[w])

\* C32: a worker that has returned leaves no socket open (none if the dial
\* failed, closed otherwise: by New after a failed handshake or bitfield read,
\* by the deferred Close after a transport error or the end of the queue); a
\* closed socket stays closed, and no step writes to or reads from a socket
\* that is not open.
C32_SocketsReleased ==
    [][\A w \in Workers :
         /\ pc'[w] = "exited" =>
              conn'[w] = IF handshake'[w] = "none" THEN "none" ELSE "closed"
         /\ conn[w] = "closed" => conn'[w] = "closed"
         /\ UsesSocket(w) => conn'[w] = "open" /\ conn[w] # "closed"]_vars

\* One worker's session ended inside New on a first message that was no
\* bitfield, the other's at the end of the closed queue after it had sent a
\* have: both sockets are closed.
C32_Witness ==
    \E w, v \in Workers :
        /\ firstRead[w] = <<Got(Message(MsgUnchoke, <<>>))>>
        /\ conn[w] = "closed"
        /\ pc[v] = "exited"
        /\ closed
        /\ Len(sent[v]) > 2
        /\ conn[v] = "closed"

\* C33: Parse returns a descriptor only for a file whose pieces field has a
\* length that is a nonzero multiple of 20 and whose piece length and length
\* are positive.
C33_ParseRequiresPositiveFields ==
    (Called("Parse") /\ ~ret[1].err) =>
        /\ PiecesFieldLen(call.pieces) > 0
        /\ PiecesFieldLen(call.pieces) % HashLen = 0
        /\ ret[1].torrent.PieceLength > 0
        /\ ret[1].torrent.Length > 0

\* How many times x stands in the sequence q.
CountIn(q, x) == Cardinality({k \in 1..Len(q) : q[k] = x})

\* Worker w is running and has job index in hand (received and not yet sent
\* back or turned into a result).
Holds(w, index) ==
    pw[w].index = index /\ pc[w] \notin {"absent", "start", "exited", "panic"}

\* In how many places piece index is: jobs in the work queue, workers holding
\* the job, workers sending its result, results the coordinator has written.
PlacesOf(index) ==
    CountIn([k \in 1..Len(workQueue) |-> workQueue[k].index], index)
    + Cardinality({w \in Workers : Holds(w, index)})
    + Cardinality({w \in Workers : res[w].index = index})
    + CountIn([k \in 1..Len(collected) |-> collected[k].index], index)

\* C34: every piece index is in exactly one place: in the work queue, in the
\* hand of one running worker, in a result being sent, or written by the
\* coordinator; a worker that holds no job or has returned holds none.
C34_EachPieceInOnePlace ==
    /\ \A index \in 0..(NumPieces - 1) : PlacesOf(index) = 1
    /\ \A w \in Workers : pc[w] \in {"absent", "start", "range", "publish", "exited"}
                             => pw[w] = NoWork

\* One piece is in a result being sent while the other is in the hand of a
\* worker whose peer lacks it; the queue is empty.
C34_Witness ==
    \E w, v \in Workers :
        /\ pc[w] = "publish"
        /\ pc[v] = "requeueMiss"
        /\ workQueue = <<>>
        /\ collected = <<>>

\* C35: once the coordinator has closed the work queue no worker holds a job
\* or stands at a requeue send, nothing is sent on the queue any more, and no
\* worker panics on a closed channel.
C35_NoSendAfterClose ==
    [][/\ closed' =>
            /\ \A w \in Workers :
                 /\ pw'[w] = NoWork
                 /\ pc'[w] \notin {"requeueMiss", "requeueErr", "requeueBad", "download", "panic"}
            /\ closed => Len(workQueue') <= Len(workQueue)
       /\ closed => closed']_vars

\* The queue has just been closed with one worker at the receive of the range
\* loop and the other already gone after a transport error it requeued for.
C35_Witness ==
    /\ closed
    /\ \E w, v \in Workers :
         /\ pc[w] = "range"
         /\ pc[v] = "exited"
         /\ wire[v].reqs # <<>>
         /\ ~client[v].nil

\* C36: the results received and being sent are never more than num_pieces,
\* every result a worker sends is received, and once Download has returned no
\* worker stands at the send of a result.
C36_ResultsAllReceived ==
    /\ [](/\ Len(collected) + Cardinality({w \in Workers : pc[w] = "publish"}) <= NumPieces
          /\ dpc = "returned" => \A w \in Workers : pc[w] # "publish" /\ res[w] = NoResult)
    /\ \A w \in Workers : (pc[w] = "publish") ~> (pc[w] = "range" /\ res[w] = NoResult)

\* Both workers stand at the send of a result at once.
C36_Witness ==
    /\ \A w \in Workers : pc[w] = "publish"
    /\ dpc = "collect"
    /\ collected = <<>>

\* The step is a read of worker w inside the download loop that returned a
\* message without error (a keep-alive apart, which changes nothing).
ReadsMessage(w) ==
    /\ pc[w] = "download"
    /\ pc'[w] = "download"
    /\ wire'[w].reqs = wire[w].reqs
    /\ state'[w] # state[w] \/ client'[w] # client[w]

\* C37: a message is read during a piece download, choked being false, only
\* with backlog >= MaxBacklog or requested = length.
C37_ReadsWithFullWindow ==
    [][\A w \in Workers :
         ReadsMessage(w) /\ ~client[w].Choked =>
             \/ state[w].backlog >= MaxBacklog
             \/ state[w].requested = pw[w].length]_vars

\* An unchoked worker has read the answer to its first request with the
\* window full and part of the piece still to request.
C37_Witness ==
    \E w \in Workers :
        /\ pc[w] = "download"
        /\ ~client[w].Choked
        /\ state[w].backlog = MaxBacklog - 1
        /\ Len(wire[w].reqs) = MaxBacklog
        /\ state[w].downloaded = MaxBlockSize
        /\ state[w].requested < pw[w].length

\* C38: the client of a session (choked, bitfield) changes only in a step
\* that reads a message inside the download loop; it is the same before and
\* after a job is taken, skipped, requeued or published; every attempt starts
\* with downloaded, requested and backlog at 0 and a fresh buffer.
C38_SessionCarriesOver ==
    [][\A w \in Workers :
         /\ ~client[w].nil /\ client'[w] # client[w] => ReadsMessage(w)
         /\ pc[w] = "range" /\ pc'[w] = "download" =>
              /\ client'[w] = client[w]
              /\ state'[w].downloaded = 0
              /\ state'[w].requested = 0
              /\ state'[w].backlog = 0
              /\ state'[w].buf = Zeros(pw'[w].length)
              /\ state'[w].index = pw'[w].index]_vars

\* A worker that has sent a have for an earlier piece starts its next job
\* still unchoked, with nothing requested or received yet.
C38_Witness ==
    \E w \in Workers :
        /\ pc[w] = "download"
        /\ Len(sent[w]) > 2
        /\ ~client[w].Choked
        /\ wire[w].reqs = <<>>
        /\ state[w] = newProgress(pw[w])

====
